---- MODULE Spec2Model ----
(***************************************************************************)
(* Section-boundary resolution engine of radreportparser: pattern          *)
(* compilation from marker lists (_pattern_keys), start/end position       *)
(* search (_find_start_position, _find_start_position_all,                 *)
(* _find_end_position_greedy, _find_end_position_sequential) and the       *)
(* SectionExtractor built on them.                                         *)
(*                                                                         *)
(* A text is a sequence of one-character strings.  A marker (key) is a     *)
(* fragment of a regular expression, also a sequence of characters: the    *)
(* keys are joined with "|" into the text of a pattern, which re.compile   *)
(* parses and Pattern.search and Pattern.finditer match by backtracking.   *)
(* Offsets are 0-based as in the source, so the character at offset i of s *)
(* is s[i + 1].                                                            *)
(***************************************************************************)
EXTENDS Integers, Sequences, FiniteSets

VARIABLES
    arg,     \* the arguments the caller passes, other than the text
    text,    \* the text the caller processes
    ext,     \* the SectionExtractor instance the caller holds
    op,      \* the operation performed last
    out,     \* the value it returned
    raised,  \* the exception it raised, "none" if it returned
    log,     \* the warnings the code has sent to the logging sink
    stdout,  \* the messages the code has printed
    calls    \* the frames of the calls that threads have in progress

vars == <<arg, text, ext, op, out, raised, log, stdout, calls>>

-----------------------------------------------------------------------------
(* Bounds *)

\* longest generated text
MaxTextLen == 3
\* longest generated marker list
MaxKeys == 2
\* the largest number of sections of a generated report
MaxSections == 3

-----------------------------------------------------------------------------
(* Characters *)

\* the characters U+0001 to U+00FF by code point, the characters a string of
\* this module can hold; the grave accent U+0060 cannot be written in one
\* and is named instead
Latin1 ==
    <<
      "", "", "", "", "", "", "", "",
      "\t", "\n", "", "", "\r", "", "", "",
      "", "", "", "", "", "", "", "",
      "", "", "", "", "", "", "", " ",
      "!", "\"", "#", "$", "%", "&", "'", "(",
      ")", "*", "+", ",", "-", ".", "/", "0",
      "1", "2", "3", "4", "5", "6", "7", "8",
      "9", ":", ";", "<", "=", ">", "?", "@",
      "A", "B", "C", "D", "E", "F", "G", "H",
      "I", "J", "K", "L", "M", "N", "O", "P",
      "Q", "R", "S", "T", "U", "V", "W", "X",
      "Y", "Z", "[", "\\", "]", "^", "_", "U+0060",
      "a", "b", "c", "d", "e", "f", "g", "h",
      "i", "j", "k", "l", "m", "n", "o", "p",
      "q", "r", "s", "t", "u", "v", "w", "x",
      "y", "z", "{", "|", "}", "~", "", "",
      "", "", "", "", "", "", "", "",
      "", "", "", "", "", "", "", "",
      "", "", "", "", "", "", "", "",
      "", "", "", "", "", "", "", " ",
      "¡", "¢", "£", "¤", "¥", "¦", "§", "¨",
      "©", "ª", "«", "¬", "­", "®", "¯", "°",
      "±", "²", "³", "´", "µ", "¶", "·", "¸",
      "¹", "º", "»", "¼", "½", "¾", "¿", "À",
      "Á", "Â", "Ã", "Ä", "Å", "Æ", "Ç", "È",
      "É", "Ê", "Ë", "Ì", "Í", "Î", "Ï", "Ð",
      "Ñ", "Ò", "Ó", "Ô", "Õ", "Ö", "×", "Ø",
      "Ù", "Ú", "Û", "Ü", "Ý", "Þ", "ß", "à",
      "á", "â", "ã", "ä", "å", "æ", "ç", "è",
      "é", "ê", "ë", "ì", "í", "î", "ï", "ð",
      "ñ", "ò", "ó", "ô", "õ", "ö", "÷", "ø",
      "ù", "ú", "û", "ü", "ý", "þ", "ÿ"
    >>

Range(s) == {s[i] : i \in 1..Len(s)}

\* ord(c)
Ord == [c \in Range(Latin1) |-> CHOOSE n \in 1..Len(Latin1) : Latin1[n] = c]

\* the characters with the given code points
Chars(codes) == {Latin1[n] : n \in codes}

\* the cased upper-case letters: A-Z and the Latin-1 letters U+00C0-U+00DE
\* without the multiplication sign
UpperLetters == Chars((65..90) \cup (192..214) \cup (216..222))

\* the lower-case letter of each upper-case letter
LowerOf == [c \in UpperLetters |-> Latin1[Ord[c] + 32]]

\* the lower-case partners: a-z and U+00E0-U+00FE without the division sign
LowerLetters == {LowerOf[c] : c \in UpperLetters}

\* re.IGNORECASE: characters are compared after case folding
IGNORECASE(c) == IF c \in UpperLetters THEN LowerOf[c] ELSE c

\* the decimal digits
Digits == Chars(48..57)

\* \d of the regular-expression engine
IsDigit(c) == c \in Digits

\* the alphanumeric characters and the underscore
WordChars ==
    Chars((48..57) \cup (65..90) \cup {95} \cup (97..122) \cup
          {170, 178, 179, 181, 185, 186, 188, 189, 190} \cup
          (192..214) \cup (216..246) \cup (248..255))

\* \w of the regular-expression engine
IsWord(c) == c \in WordChars

\* the whitespace characters
Whitespace == Chars((9..13) \cup (28..32) \cup {133, 160})

\* the characters str.strip() removes, and \s of the engine
IsSpace(c) == c \in Whitespace

Min(S) == CHOOSE m \in S : \A n \in S : m <= n

\* text[a:b] for 0 <= a, b <= len(text)
Slice(s, a, b) == SubSeq(s, a + 1, b)

\* str.strip()
strip(s) ==
    LET keep == {i \in 1..Len(s) : ~IsSpace(s[i])}
    IN  IF keep = {} THEN <<>>
        ELSE SubSeq(s, Min(keep), CHOOSE m \in keep : \A n \in keep : n <= m)

-----------------------------------------------------------------------------
(* Values *)

\* a marker list argument: None, or a list (possibly empty) of keys
None == [isNone |-> TRUE, list |-> <<>>]
List(ks) == [isNone |-> FALSE, list |-> ks]

Return(v) == [raised |-> "none", val |-> v]
Raise(e) == [raised |-> e, val |-> <<>>]

NoMatch == <<-1, -1>>

-----------------------------------------------------------------------------
(* re.compile: the parser.  A parsed pattern is a tree of nodes named after *)
(* the engine's opcodes.  The syntax covered is: literal characters, ".",   *)
(* "^", "$", "|", groups "(...)" and "(?:...)", character sets "[...]",     *)
(* the repeats "*", "+", "?", "{m}", "{m,n}" and their lazy forms, and the  *)
(* escapes \A \b \B \d \D \s \S \w \W \Z \a \f \n \r \t \v and escaped      *)
(* punctuation.  Extension groups other than "(?:", possessive repeats,     *)
(* numeric escapes and \x \u \U \N are answered with "NotModelled".         *)

\* the parser's result: a value and the offset of the next unread character
Parsed(v, pos) == [raised |-> "none", val |-> v, pos |-> pos]

\* source.next is None: the offset is at or after the end of the pattern
EndOfPattern == "end of pattern"

\* the character of the pattern text at offset i
CharAt(p, i) == IF i < Len(p) THEN p[i + 1] ELSE EndOfPattern

\* no upper limit of a repeat
MAXREPEAT == -1

AsciiLetters == Chars((65..90) \cup (97..122))

\* the characters with a meaning of their own at the start of an item
SpecialChars == {".", "\\", "[", "{", "(", ")", "*", "+", "?", "^", "$", "|"}

Literal(c) == [op |-> "LITERAL", c |-> c]
CharRange(lo, hi) == [op |-> "RANGE", lo |-> lo, hi |-> hi]
Category(name, negate) == [op |-> "CATEGORY", name |-> name, negate |-> negate]
In(negate, set) == [op |-> "IN", negate |-> negate, set |-> set]
At(at) == [op |-> "AT", at |-> at]
Items(items) == [op |-> "ITEMS", items |-> items]
Branch(items) == [op |-> "BRANCH", items |-> items]
Subpattern(p) == [op |-> "SUBPATTERN", p |-> p]
Repeat(greedy, min, max, item) == [op |-> IF greedy THEN "MAX_REPEAT" ELSE "MIN_REPEAT", min |-> min, max |-> max, item |-> item]

\* the escapes that stand for one character
ESCAPES ==
    [c \in {"a", "f", "n", "r", "t", "v", "\\"} |->
        CASE c = "a" -> Latin1[7]
          [] c = "f" -> Latin1[12]
          [] c = "n" -> "\n"
          [] c = "r" -> "\r"
          [] c = "t" -> "\t"
          [] c = "v" -> Latin1[11]
          [] OTHER -> "\\"]

\* the escapes that stand for a class of characters
CATEGORIES ==
    [c \in {"d", "D", "s", "S", "w", "W"} |->
        Category(CASE c \in {"d", "D"} -> "digit"
                   [] c \in {"s", "S"} -> "space"
                   [] OTHER -> "word",
                 c \in {"D", "S", "W"})]

\* the escapes that stand for a position
POSITIONS ==
    [c \in {"A", "b", "B", "Z"} |->
        CASE c = "A" -> At("AT_BEGINNING_STRING")
          [] c = "b" -> At("AT_BOUNDARY")
          [] c = "B" -> At("AT_NON_BOUNDARY")
          [] OTHER -> At("AT_END_STRING")]

\* escapes with a numeric or named character code
CodeEscapes == {"x", "u", "U", "N"} \cup Digits

\* an escape inside a character set; the backslash is at offset i
_class_escape(p, i) ==
    LET c == CharAt(p, i + 1)
    IN  IF c = EndOfPattern THEN Raise("re.error")
        ELSE IF c \in DOMAIN ESCAPES THEN Parsed(Literal(ESCAPES[c]), i + 2)
        ELSE IF c = "b" THEN Parsed(Literal(Latin1[8]), i + 2)
        ELSE IF c \in DOMAIN CATEGORIES THEN Parsed(CATEGORIES[c], i + 2)
        ELSE IF c \in CodeEscapes THEN Raise("NotModelled")
        ELSE IF c \in AsciiLetters THEN Raise("re.error")
        ELSE Parsed(Literal(c), i + 2)

\* an escape outside a character set; the backslash is at offset i
_escape(p, i) ==
    LET c == CharAt(p, i + 1)
    IN  IF c = EndOfPattern THEN Raise("re.error")
        ELSE IF c \in DOMAIN POSITIONS THEN Parsed(POSITIONS[c], i + 2)
        ELSE IF c \in DOMAIN CATEGORIES
        THEN Parsed(In(FALSE, <<CATEGORIES[c]>>), i + 2)
        ELSE IF c \in DOMAIN ESCAPES THEN Parsed(Literal(ESCAPES[c]), i + 2)
        ELSE IF c \in CodeEscapes THEN Raise("NotModelled")
        ELSE IF c \in AsciiLetters THEN Raise("re.error")
        ELSE Parsed(Literal(c), i + 2)

\* one member of a character set at offset i: a character or an escape
SetMember(p, i) ==
    IF CharAt(p, i) = "\\"
    THEN _class_escape(p, i)
    ELSE Parsed(Literal(CharAt(p, i)), i + 1)

\* the members of a character set from offset i on, up to the closing "]",
\* after the members in set; a "]" that comes first is a member
RECURSIVE _parse_set(_, _, _)
_parse_set(p, i, set) ==
    IF CharAt(p, i) = EndOfPattern
    THEN Raise("re.error")
    ELSE IF CharAt(p, i) = "]" /\ set # <<>>
    THEN Parsed(set, i + 1)
    ELSE LET range(code1, code2) ==
                 IF code2.raised # "none"
                 THEN code2
                 ELSE IF code1.val.op # "LITERAL" \/ code2.val.op # "LITERAL"
                 THEN Raise("re.error")
                 ELSE IF Ord[code2.val.c] < Ord[code1.val.c]
                 THEN Raise("re.error")
                 ELSE _parse_set(p, code2.pos,
                                 Append(set, CharRange(code1.val.c,
                                                       code2.val.c)))
             member(code1) ==
                 IF code1.raised # "none"
                 THEN code1
                 ELSE IF CharAt(p, code1.pos) # "-"
                 THEN _parse_set(p, code1.pos, Append(set, code1.val))
                 ELSE IF CharAt(p, code1.pos + 1) = EndOfPattern
                 THEN Raise("re.error")
                 ELSE IF CharAt(p, code1.pos + 1) = "]"
                 THEN Parsed(set \o <<code1.val, Literal("-")>>, code1.pos + 2)
                 ELSE range(code1, SetMember(p, code1.pos + 1))
         IN  member(SetMember(p, i))

\* the offset of the first character at or after offset j that is no digit
RECURSIVE DigitsEnd(_, _)
DigitsEnd(p, j) == IF CharAt(p, j) \in Digits THEN DigitsEnd(p, j + 1) ELSE j

\* int(p[a:b]) for a run of digits, 0 for the empty run
RECURSIVE Number(_, _, _)
Number(p, a, b) ==
    IF b <= a THEN 0 ELSE 10 * Number(p, a, b - 1) + (Ord[p[b]] - 48)

\* the limits of a repeat
Limits(min, max) == [literal |-> FALSE, min |-> min, max |-> max]

\* a "{" that opens no repeat stands for itself
LiteralBrace == [literal |-> TRUE, min |-> 0, max |-> 0]

\* the repeat "{lo,hi}" whose "{" is at offset i
Braces(p, i) ==
    LET closed(lo_end, hi_end, min, max) ==
            IF CharAt(p, i + 1) = "}" \/ CharAt(p, hi_end) # "}"
            THEN Parsed(LiteralBrace, i + 1)
            ELSE IF lo_end - (i + 1) > 3 \/ hi_end - lo_end > 4
            THEN Raise("NotModelled")
            ELSE IF max # MAXREPEAT /\ max < min
            THEN Raise("re.error")
            ELSE Parsed(Limits(min, max), hi_end + 1)
        numbers(lo_end, hi_end, min) ==
            closed(lo_end, hi_end, min,
                   IF CharAt(p, lo_end) # ","
                   THEN min
                   ELSE IF hi_end = lo_end + 1
                   THEN MAXREPEAT
                   ELSE Number(p, lo_end + 1, hi_end))
        digits(lo_end) ==
            numbers(lo_end,
                    IF CharAt(p, lo_end) = ","
                    THEN DigitsEnd(p, lo_end + 1)
                    ELSE lo_end,
                    Number(p, i + 1, lo_end))
    IN  digits(DigitsEnd(p, i + 1))

\* the repeat whose first character, one of * + ? {, is at offset i
RepeatAt(p, i) ==
    CASE CharAt(p, i) = "?" -> Parsed(Limits(0, 1), i + 1)
      [] CharAt(p, i) = "*" -> Parsed(Limits(0, MAXREPEAT), i + 1)
      [] CharAt(p, i) = "+" -> Parsed(Limits(1, MAXREPEAT), i + 1)
      [] OTHER -> Braces(p, i)

\* _parse: the items of one alternative from offset i on, after the items
\* already parsed; it stops before "|", ")" or the end of the pattern.
\* _parse_sub: the alternatives from offset i on, after the branches already
\* parsed; it stops before ")" or the end of the pattern.
RECURSIVE _parse(_, _, _), _parse_sub(_, _, _)
_parse(p, i, items) ==
    LET escaped(code) ==
            IF code.raised # "none"
            THEN code
            ELSE _parse(p, code.pos, Append(items, code.val))
        in(negate, set) ==
            IF set.raised # "none"
            THEN set
            ELSE _parse(p, set.pos, Append(items, In(negate, set.val)))
        repeated(this, repeat) ==
            IF repeat.raised # "none"
            THEN repeat
            ELSE IF repeat.val.literal
            THEN _parse(p, i + 1, Append(items, Literal(this)))
            ELSE IF items = <<>>
            THEN Raise("re.error")
            ELSE IF items[Len(items)].op = "AT"
            THEN Raise("re.error")
            ELSE IF items[Len(items)].op \in {"MAX_REPEAT", "MIN_REPEAT"}
            THEN Raise("re.error")
            ELSE IF CharAt(p, repeat.pos) = "+"
            THEN Raise("NotModelled")
            ELSE _parse(p,
                        IF CharAt(p, repeat.pos) = "?"
                        THEN repeat.pos + 1
                        ELSE repeat.pos,
                        Append(SubSeq(items, 1, Len(items) - 1),
                               Repeat(CharAt(p, repeat.pos) # "?",
                                      repeat.val.min, repeat.val.max,
                                      items[Len(items)])))
        grouped(group) ==
            IF group.raised # "none"
            THEN group
            ELSE IF CharAt(p, group.pos) # ")"
            THEN Raise("re.error")
            ELSE _parse(p, group.pos + 1, Append(items, Subpattern(group.val)))
        item(this) ==
            IF this \in {EndOfPattern, "|", ")"}
            THEN Parsed(Items(items), i)
            ELSE IF this = "\\"
            THEN escaped(_escape(p, i))
            ELSE IF this \notin SpecialChars
            THEN _parse(p, i + 1, Append(items, Literal(this)))
            ELSE IF this = "["
            THEN IF CharAt(p, i + 1) = "^"
                 THEN in(TRUE, _parse_set(p, i + 2, <<>>))
                 ELSE in(FALSE, _parse_set(p, i + 1, <<>>))
            ELSE IF this \in {"*", "+", "?", "{"}
            THEN repeated(this, RepeatAt(p, i))
            ELSE IF this = "."
            THEN _parse(p, i + 1, Append(items, [op |-> "ANY"]))
            ELSE IF this = "("
            THEN IF CharAt(p, i + 1) = "?" /\ CharAt(p, i + 2) # ":"
                 THEN Raise("NotModelled")
                 ELSE grouped(_parse_sub(p,
                                         IF CharAt(p, i + 1) = "?"
                                         THEN i + 3
                                         ELSE i + 1,
                                         <<>>))
            ELSE IF this = "^"
            THEN _parse(p, i + 1, Append(items, At("AT_BEGINNING")))
            ELSE _parse(p, i + 1, Append(items, At("AT_END")))
    IN  item(CharAt(p, i))

_parse_sub(p, i, branches) ==
    LET alternative(items) ==
            IF items.raised # "none"
            THEN items
            ELSE IF CharAt(p, items.pos) = "|"
            THEN _parse_sub(p, items.pos + 1, Append(branches, items.val))
            ELSE Parsed(Branch(Append(branches, items.val)), items.pos)
    IN  alternative(_parse(p, i, <<>>))

\* re.compile(pattern, flags = re.IGNORECASE): the parsed pattern, or re.error
\* for a text that is no well-formed pattern; a ")" left over is unbalanced
re_compile(p) ==
    LET compiled(parsed) ==
            IF parsed.raised # "none"
            THEN Raise(parsed.raised)
            ELSE IF parsed.pos < Len(p)
            THEN Raise("re.error")
            ELSE Return(parsed.val)
    IN  compiled(_parse_sub(p, 0, <<>>))

-----------------------------------------------------------------------------
(* Pattern.search and Pattern.finditer: the matcher *)

\* \b holds at offset i of s
WordBoundaryAt(s, i) ==
    (i > 0 /\ IsWord(s[i])) # (i < Len(s) /\ IsWord(s[i + 1]))

\* the position code holds at offset i of s; "$" holds at the end and before
\* a newline that ends the text, and \B holds nowhere in the empty text
AtHolds(at, s, i) ==
    CASE at \in {"AT_BEGINNING", "AT_BEGINNING_STRING"} -> i = 0
      [] at = "AT_END" -> i = Len(s) \/ (i = Len(s) - 1 /\ s[i + 1] = "\n")
      [] at = "AT_END_STRING" -> i = Len(s)
      [] at = "AT_BOUNDARY" -> WordBoundaryAt(s, i)
      [] OTHER -> Len(s) > 0 /\ ~WordBoundaryAt(s, i)

\* the character is in the category
InCategory(name, c) ==
    CASE name = "digit" -> IsDigit(c)
      [] name = "space" -> IsSpace(c)
      [] OTHER -> IsWord(c)

\* the character c agrees with a member of a character set: with a character
\* or one of the characters of a range, compared after case folding, or with
\* a category
InMember(member, c) ==
    CASE member.op = "LITERAL" -> IGNORECASE(member.c) = IGNORECASE(c)
      [] member.op = "RANGE" ->
             \E n \in Ord[member.lo]..Ord[member.hi] :
                 IGNORECASE(Latin1[n]) = IGNORECASE(c)
      [] OTHER -> InCategory(member.name, c) # member.negate

\* the node consumes the character c
Consumes(node, c) ==
    CASE node.op = "LITERAL" -> IGNORECASE(node.c) = IGNORECASE(c)
      [] node.op = "ANY" -> c # "\n"
      [] OTHER ->
             (\E k \in 1..Len(node.set) : InMember(node.set[k], c))
                 # node.negate

\* Ends(node, s, i): the offsets at which a match of the node that begins at
\* offset i of s can end, in the order in which backtracking tries them: the
\* alternatives of a branch in list order, a greedy repeat with more
\* iterations first and a lazy one with fewer first.  An iteration beyond the
\* minimum that consumes nothing is not followed by another; the iterations
\* up to the minimum are done whatever they consume, and one more is tried
\* after them.
RECURSIVE Ends(_, _, _), ItemsEnds(_, _, _, _), ItemsEndsFrom(_, _, _, _, _), BranchEnds(_, _, _, _), Iterations(_, _, _, _, _), IterationsFrom(_, _, _, _, _, _), RepeatEnds(_, _, _, _, _)
Ends(node, s, i) ==
    CASE node.op \in {"LITERAL", "ANY", "IN"} ->
             IF i < Len(s) /\ Consumes(node, s[i + 1]) THEN <<i + 1>> ELSE <<>>
      [] node.op = "AT" -> IF AtHolds(node.at, s, i) THEN <<i>> ELSE <<>>
      [] node.op = "SUBPATTERN" -> Ends(node.p, s, i)
      [] node.op = "BRANCH" -> BranchEnds(node.items, 1, s, i)
      [] node.op = "ITEMS" -> ItemsEnds(node.items, 1, s, i)
      [] OTHER -> RepeatEnds(node, s, i, 0, -1)

\* the ends of the items from index n on, matched one after the other from i
ItemsEnds(items, n, s, i) ==
    IF n > Len(items)
    THEN <<i>>
    ELSE ItemsEndsFrom(items, n, s, Ends(items[n], s, i), 1)

\* the same for item n ending at each of ends[k], ends[k + 1], ...
ItemsEndsFrom(items, n, s, ends, k) ==
    IF k > Len(ends)
    THEN <<>>
    ELSE ItemsEnds(items, n + 1, s, ends[k]) \o
         ItemsEndsFrom(items, n, s, ends, k + 1)

\* the ends of the alternatives from index n on
BranchEnds(items, n, s, i) ==
    IF n > Len(items)
    THEN <<>>
    ELSE Ends(items[n], s, i) \o BranchEnds(items, n + 1, s, i)

\* the ends of the repeat after one more iteration from offset i, count
\* iterations being done; last is the repeat's last_ptr during the iteration
Iterations(node, s, i, count, last) ==
    IterationsFrom(node, s, last, count, Ends(node.item, s, i), 1)

\* the same for the iteration ending at each of ends[k], ends[k + 1], ...
IterationsFrom(node, s, last, count, ends, k) ==
    IF k > Len(ends)
    THEN <<>>
    ELSE RepeatEnds(node, s, ends[k], count + 1, last) \o
         IterationsFrom(node, s, last, count, ends, k + 1)

\* the ends of the repeat when count iterations are done and the match is at
\* offset i; last is the repeat's last_ptr: the offset at which the latest
\* iteration beyond the minimum began, -1 when there was none.  An iteration
\* up to the minimum leaves last_ptr as it is, one beyond the minimum sets it
\* to the offset at which it begins.
RepeatEnds(node, s, i, count, last) ==
    IF count < node.min
    THEN Iterations(node, s, i, count, last)
    ELSE LET ordered(more) ==
                 IF node.op = "MAX_REPEAT" THEN Append(more, i) ELSE <<i>> \o more
         IN  IF (node.max = MAXREPEAT \/ count < node.max) /\ i # last
             THEN ordered(Iterations(node, s, i, count, i))
             ELSE ordered(<<>>)

\* the first of the ends that is allowed, -1 if there is none; after an empty
\* match the next match at the same offset must not be empty
RECURSIVE FirstEnd(_, _, _, _)
FirstEnd(ends, k, i, must_advance) ==
    IF k > Len(ends)
    THEN -1
    ELSE IF must_advance /\ ends[k] = i
    THEN FirstEnd(ends, k + 1, i, must_advance)
    ELSE ends[k]

\* end offset of the match of p anchored at offset i of s, -1 if there is none
MatchAt(p, s, i, must_advance) == FirstEnd(Ends(p, s, i), 1, i, must_advance)

\* the span of the leftmost match that begins at or after offset i
RECURSIVE SearchFrom(_, _, _, _)
SearchFrom(p, s, i, must_advance) ==
    IF i > Len(s)
    THEN NoMatch
    ELSE LET anchored(end) ==
                 IF end # -1 THEN <<i, end>> ELSE SearchFrom(p, s, i + 1, FALSE)
         IN  anchored(MatchAt(p, s, i, must_advance))

\* pattern.search: the span of the leftmost match at or after offset pos
search(p, s, pos) == SearchFrom(p, s, pos, FALSE)

\* the spans of the matches from offset pos on, left to right: a match begins
\* where the one before it ended, and a match that follows an empty match at
\* the same offset is not empty
RECURSIVE FindFrom(_, _, _, _)
FindFrom(p, s, pos, must_advance) ==
    LET found(m) ==
            IF m = NoMatch
            THEN <<>>
            ELSE <<m>> \o FindFrom(p, s, m[2], m[1] = m[2])
    IN  found(SearchFrom(p, s, pos, must_advance))

\* pattern.finditer: the spans of the matches, left to right
finditer(p, s, pos) == FindFrom(p, s, pos, FALSE)

\* '|'.join(keys) from index i on
RECURSIVE Join(_, _)
Join(keys, i) ==
    IF i > Len(keys) THEN <<>>
    ELSE IF i = Len(keys) THEN keys[i]
    ELSE keys[i] \o <<"|">> \o Join(keys, i + 1)

\* rf"\b({'|'.join(keys)})\b", or rf"({'|'.join(keys)})" without word boundary
PatternText(keys, word_boundary) ==
    IF word_boundary
    THEN <<"\\", "b", "(">> \o Join(keys, 1) \o <<")", "\\", "b">>
    ELSE <<"(">> \o Join(keys, 1) \o <<")">>

\* the key k, taken as a pattern of its own, matches s at offset i
KeyAt(s, i, k) ==
    /\ re_compile(k).raised = "none"
    /\ MatchAt(re_compile(k).val, s, i, FALSE) # -1

\* a compilation that never anchors the alternation on word boundaries
_pattern_keys_unanchored(keys, word_boundary) ==
    IF Len(keys) = 0
    THEN Raise("ValueError")
    ELSE re_compile(PatternText(keys, FALSE))

\* the compiled pattern \b(k1|...|kn)\b, or (k1|...|kn) without word boundary
_pattern_keys(keys, word_boundary) ==
    IF Len(keys) = 0
    THEN Raise("ValueError")
    ELSE re_compile(PatternText(keys, word_boundary))

-----------------------------------------------------------------------------
(* Position search *)

\* len(re.findall(key, text, flags)): the number of matches of the key on
\* its own, compiled as it is, or the re.error of its compilation
findall_count(key, s) ==
    LET counted(pattern) ==
            IF pattern.raised # "none"
            THEN Raise(pattern.raised)
            ELSE Return(Len(finditer(pattern.val, s, 0)))
    IN  counted(re_compile(key))

\* what a warning loop has done: the warnings logged, and the exception that
\* ended it, "none" if it ran to its end
Warned(e, warnings) == [raised |-> e, log |-> warnings]

\* the warning of a key that matches count times, none if count < 2
Warning(key, count) ==
    IF count >= 2 THEN <<[key |-> key, count |-> count]>> ELSE <<>>

\* _warn_dup_pattern: the loop over the keys from index i on; a key with 2
\* matches or more is logged, the first key with fewer ends the function
RECURSIVE WarnDupFrom(_, _, _)
WarnDupFrom(s, keys, i) ==
    IF i > Len(keys)
    THEN Warned("none", <<>>)
    ELSE LET logged(count, rest) ==
                 Warned(rest.raised, Warning(keys[i], count.val) \o rest.log)
             checked(count) ==
                 IF count.raised # "none"
                 THEN Warned(count.raised, <<>>)
                 ELSE IF count.val >= 2
                 THEN logged(count, WarnDupFrom(s, keys, i + 1))
                 ELSE Warned("none", <<>>)
         IN  checked(findall_count(keys[i], s))

\* _warn_dup_pattern(text, keys): the warnings it logs
_warn_dup_pattern(s, keys) == WarnDupFrom(s, keys, 1)

\* a warning loop that returns at the first marker matching fewer than twice
DupWarnings_stop_at_first_single(s, keys) == WarnDupFrom(s, keys, 1)

\* the loop "for key in keys" of the start search from index i on: every key
\* is counted, and the count of a key that is no pattern raises
RECURSIVE DupWarningsFrom(_, _, _)
DupWarningsFrom(s, keys, i) ==
    IF i > Len(keys)
    THEN Warned("none", <<>>)
    ELSE LET logged(count, rest) ==
                 Warned(rest.raised, Warning(keys[i], count.val) \o rest.log)
             checked(count) ==
                 IF count.raised # "none"
                 THEN Warned(count.raised, <<>>)
                 ELSE logged(count, DupWarningsFrom(s, keys, i + 1))
         IN  checked(findall_count(keys[i], s))

\* the warnings of the loop "Warn if start pattern appears more than once"
DupWarnings(s, keys) == DupWarningsFrom(s, keys, 1)

\* "word_boundary: bool = True", the default of _find_start_position and of
\* the two end searches
word_boundary_default == TRUE

\* what a start search has done: the span returned, the exception raised,
\* the warnings logged
Started(e, span, warnings) == [raised |-> e, val |-> span, log |-> warnings]

\* a start search that treats absent markers as a miss
_find_start_position_none_is_miss(s, keys, word_boundary) ==
    IF keys.isNone
    THEN Started("none", NoMatch, <<>>)
    ELSE LET warnings == DupWarnings(s, keys.list)
             pattern  == _pattern_keys(keys.list, word_boundary)
         IN  IF warnings.raised # "none"
             THEN Started(warnings.raised, <<>>, warnings.log)
             ELSE IF pattern.raised # "none"
             THEN Started(pattern.raised, <<>>, warnings.log)
             ELSE Started("none", search(pattern.val, s, 0), warnings.log)

\* a start search that reports a miss as the start of the text
_find_start_position_miss_is_zero(s, keys, word_boundary) ==
    IF keys.isNone
    THEN Started("none", <<0, 0>>, <<>>)
    ELSE LET warnings == DupWarnings(s, keys.list)
             pattern  == _pattern_keys(keys.list, word_boundary)
         IN  IF warnings.raised # "none"
             THEN Started(warnings.raised, <<>>, warnings.log)
             ELSE IF pattern.raised # "none"
             THEN Started(pattern.raised, <<>>, warnings.log)
             ELSE Started("none",
                          IF search(pattern.val, s, 0) = NoMatch
                          THEN <<0, 0>>
                          ELSE search(pattern.val, s, 0),
                          warnings.log)

\* _find_start_position: the warning loop, then the compilation of the
\* markers and the search
_find_start_position(s, keys, word_boundary) ==
    LET searched(warnings, pattern) ==
            IF pattern.raised # "none"
            THEN Started(pattern.raised, <<>>, warnings.log)
            ELSE Started("none", search(pattern.val, s, 0), warnings.log)
        warned(warnings) ==
            IF warnings.raised # "none"
            THEN Started(warnings.raised, <<>>, warnings.log)
            ELSE searched(warnings, _pattern_keys(keys.list, word_boundary))
    IN  IF keys.isNone
        THEN Started("none", <<0, 0>>, <<>>)
        ELSE warned(DupWarnings(s, keys.list))

\* what the start search with a verbose switch has done: the span returned,
\* the exception raised, the messages printed
StartedGreedy(e, span, printed) == [raised |-> e, val |-> span, printed |-> printed]

\* a start search whose diagnostic ends the search without a match
_find_start_position_greedy_warning_returns(s, keys, word_boundary, verbose) ==
    IF keys.isNone
    THEN StartedGreedy("none", <<0, 0>>, <<>>)
    ELSE LET counted == DupWarnings(s, keys.list)
             printed == IF verbose THEN counted.log ELSE <<>>
             pattern == _pattern_keys(keys.list, word_boundary)
         IN  IF counted.raised # "none"
             THEN StartedGreedy(counted.raised, <<>>, printed)
             ELSE IF pattern.raised # "none"
             THEN StartedGreedy(pattern.raised, <<>>, printed)
             ELSE StartedGreedy("none",
                                IF printed # <<>>
                                THEN NoMatch
                                ELSE search(pattern.val, s, 0),
                                printed)

\* _find_start_position_greedy: the start search with a verbose switch; every
\* key is counted, and with verbose the message of a key with 2 matches or
\* more is printed
_find_start_position_greedy(s, keys, word_boundary, verbose) ==
    LET searched(printed, pattern) ==
            IF pattern.raised # "none"
            THEN StartedGreedy(pattern.raised, <<>>, printed)
            ELSE StartedGreedy("none", search(pattern.val, s, 0), printed)
        counted(counts, printed) ==
            IF counts.raised # "none"
            THEN StartedGreedy(counts.raised, <<>>, printed)
            ELSE searched(printed, _pattern_keys(keys.list, word_boundary))
        loop(counts) == counted(counts, IF verbose THEN counts.log ELSE <<>>)
    IN  IF keys.isNone
        THEN StartedGreedy("none", <<0, 0>>, <<>>)
        ELSE loop(DupWarnings(s, keys.list))

\* a search for all starts that stops after the first match
_find_start_position_all_first_only(s, keys, word_boundary) ==
    IF keys.isNone
    THEN Return(<<<<0, 0>>>>)
    ELSE LET pattern == _pattern_keys(keys.list, word_boundary)
         IN  IF pattern.raised # "none"
             THEN Raise(pattern.raised)
             ELSE Return(IF search(pattern.val, s, 0) = NoMatch
                         THEN <<>>
                         ELSE <<search(pattern.val, s, 0)>>)

_find_start_position_all(s, keys, word_boundary) ==
    LET matches(pattern) ==
            IF pattern.raised # "none"
            THEN Raise(pattern.raised)
            ELSE Return(finditer(pattern.val, s, 0))
    IN  IF keys.isNone
        THEN Return(<<<<0, 0>>>>)
        ELSE matches(_pattern_keys(keys.list, word_boundary))

\* a greedy search that compiles only the first listed key
_find_end_position_greedy_first_key(s, keys, start_pos, word_boundary) ==
    IF keys.isNone
    THEN Return(Len(s))
    ELSE LET pattern == _pattern_keys(IF Len(keys.list) = 0
                                      THEN <<>>
                                      ELSE <<keys.list[1]>>, word_boundary)
         IN  IF pattern.raised # "none"
             THEN Raise(pattern.raised)
             ELSE LET end_match ==
                          search(pattern.val, Slice(s, start_pos, Len(s)), 0)
                  IN  Return(IF end_match = NoMatch
                             THEN Len(s)
                             ELSE start_pos + end_match[1])

_find_end_position_greedy(s, keys, start_pos, word_boundary) ==
    LET end(end_match) ==
            Return(IF end_match = NoMatch
                   THEN Len(s)
                   ELSE start_pos + end_match[1])
        searched(pattern) ==
            IF pattern.raised # "none"
            THEN Raise(pattern.raised)
            ELSE end(search(pattern.val, Slice(s, start_pos, Len(s)), 0))
    IN  IF keys.isNone
        THEN Return(Len(s))
        ELSE searched(_pattern_keys(keys.list, word_boundary))

\* the loop "for key in keys" from index i on, over search_text =
\* text[start_pos:]: each key is compiled on its own when its turn comes
RECURSIVE SequentialFrom(_, _, _, _, _)
SequentialFrom(s, keys, start_pos, word_boundary, i) ==
    IF i > Len(keys)
    THEN Return(Len(s))
    ELSE LET end(match) ==
                 IF match # NoMatch
                 THEN Return(start_pos + match[1])
                 ELSE SequentialFrom(s, keys, start_pos, word_boundary, i + 1)
             searched(pattern) ==
                 IF pattern.raised # "none"
                 THEN Raise(pattern.raised)
                 ELSE end(search(pattern.val, Slice(s, start_pos, Len(s)), 0))
         IN  searched(_pattern_keys(<<keys[i]>>, word_boundary))

\* a sequential search that lets all keys compete, as the greedy one does
_find_end_position_sequential_any_key(s, keys, start_pos, word_boundary) ==
    _find_end_position_greedy(s, keys, start_pos, word_boundary)

_find_end_position_sequential(s, keys, start_pos, word_boundary) ==
    IF keys.isNone
    THEN Return(Len(s))
    ELSE SequentialFrom(s, keys.list, start_pos, word_boundary, 1)

-----------------------------------------------------------------------------
(* SectionExtractor *)

match_strategy_options == {"greedy", "sequential"}

\* the caller holds no instance
NoInstance ==
    [constructed |-> FALSE, start_keys |-> None, end_keys |-> None,
     include_start_keys |-> TRUE, word_boundary |-> FALSE,
     match_strategy |-> "greedy"]

\* a constructor that stores match_strategy without validating it
SectionExtractor_unvalidated(start_keys, end_keys, include_start_keys, word_boundary, match_strategy) ==
    Return([constructed |-> TRUE, start_keys |-> start_keys,
            end_keys |-> end_keys,
            include_start_keys |-> include_start_keys,
            word_boundary |-> word_boundary,
            match_strategy |-> match_strategy])

\* SectionExtractor.__init__: the instance, or the ValueError of the validation
SectionExtractor(start_keys, end_keys, include_start_keys, word_boundary, match_strategy) ==
    IF match_strategy \notin match_strategy_options
    THEN Raise("ValueError")
    ELSE Return([constructed |-> TRUE, start_keys |-> start_keys,
                 end_keys |-> end_keys,
                 include_start_keys |-> include_start_keys,
                 word_boundary |-> word_boundary,
                 match_strategy |-> match_strategy])

\* an end search that is greedy whatever the strategy
FindEnd_always_greedy(match_strategy, s, keys, start_pos, word_boundary) ==
    _find_end_position_greedy(s, keys, start_pos, word_boundary)

\* "Find end position based on strategy"
FindEnd(match_strategy, s, keys, start_pos, word_boundary) ==
    IF match_strategy = "greedy"
    THEN _find_end_position_greedy(s, keys, start_pos, word_boundary)
    ELSE _find_end_position_sequential(s, keys, start_pos, word_boundary)

\* the slice as it is, without strip()
Section_not_stripped(s, include_start_keys, start_idx_start, start_idx_end, end_idx) ==
    Slice(s,
          IF include_start_keys THEN start_idx_start ELSE start_idx_end,
          end_idx)

\* text[section_start:end_idx].strip()
Section(s, include_start_keys, start_idx_start, start_idx_end, end_idx) ==
    strip(Slice(s,
                IF include_start_keys THEN start_idx_start ELSE start_idx_end,
                end_idx))

\* SectionExtractor.extract: the position functions are called without
\* word_boundary and flags, so they run with their defaults
extract(self, s) ==
    LET ended(start, end) ==
            IF end.raised # "none"
            THEN [raised |-> end.raised, val |-> <<>>, log |-> start.log]
            ELSE [raised |-> "none",
                  val |-> Section(s, self.include_start_keys,
                                  start.val[1], start.val[2], end.val),
                  log |-> start.log]
        started(start) ==
            IF start.raised # "none"
            THEN [raised |-> start.raised, val |-> <<>>, log |-> start.log]
            ELSE IF start.val[1] = -1
            THEN [raised |-> "none", val |-> <<>>, log |-> start.log]
            ELSE ended(start,
                       FindEnd(self.match_strategy, s, self.end_keys,
                               start.val[1], word_boundary_default))
    IN  started(_find_start_position(s, self.start_keys,
                                     word_boundary_default))

\* extract_section: the functional form; the start search comes first and
\* the strategy is validated after it
extract_section(s, start_keys, end_keys, include_start_keys, word_boundary, match_strategy) ==
    LET ended(start, end) ==
            IF end.raised # "none"
            THEN [raised |-> end.raised, val |-> <<>>, log |-> start.log]
            ELSE [raised |-> "none",
                  val |-> Section(s, include_start_keys, start.val[1],
                                  start.val[2], end.val),
                  log |-> start.log]
        started(start) ==
            IF start.raised # "none"
            THEN [raised |-> start.raised, val |-> <<>>, log |-> start.log]
            ELSE IF start.val[1] = -1
            THEN [raised |-> "none", val |-> <<>>, log |-> start.log]
            ELSE IF match_strategy \notin match_strategy_options
            THEN [raised |-> "ValueError", val |-> <<>>, log |-> start.log]
            ELSE ended(start,
                       FindEnd(match_strategy, s, end_keys, start.val[1],
                               word_boundary_default))
    IN  started(_find_start_position(s, start_keys, word_boundary_default))

\* extract_section2: the start search, and then a call of _find_end_position,
\* a name that nothing defines
extract_section2(s, start_keys, end_keys, include_start_keys, word_boundary) ==
    LET started(start) ==
            IF start.raised # "none"
            THEN [raised |-> start.raised, val |-> <<>>, log |-> start.log]
            ELSE IF start.val[1] = -1
            THEN [raised |-> "none", val |-> <<>>, log |-> start.log]
            ELSE [raised |-> "NameError", val |-> <<>>, log |-> start.log]
    IN  started(_find_start_position(s, start_keys, word_boundary_default))

\* a loop that appends every section, empty ones too
RECURSIVE ExtractAllFrom_keep_empty(_, _, _, _)
ExtractAllFrom_keep_empty(self, s, start_positions, i) ==
    IF i > Len(start_positions)
    THEN Return(<<>>)
    ELSE LET end == FindEnd(self.match_strategy, s, self.end_keys,
                            start_positions[i][1], self.word_boundary)
             rest == ExtractAllFrom_keep_empty(self, s, start_positions, i + 1)
         IN  IF end.raised # "none"
             THEN Raise(end.raised)
             ELSE IF rest.raised # "none"
             THEN rest
             ELSE Return(<<Section(s, self.include_start_keys,
                                   start_positions[i][1],
                                   start_positions[i][2], end.val)>>
                         \o rest.val)

\* a loop whose end search starts just after the end of the previous
\* section, not at the occurrence's own start
RECURSIVE ExtractAllFrom_after_previous_end(_, _, _, _)
ExtractAllFrom_after_previous_end(self, s, start_positions, i) ==
    IF i > Len(start_positions)
    THEN Return(<<>>)
    ELSE LET from == IF i = 1
                     THEN start_positions[1][1]
                     ELSE FindEnd(self.match_strategy, s, self.end_keys,
                                  start_positions[i - 1][1],
                                  self.word_boundary).val + 1
             end == FindEnd(self.match_strategy, s, self.end_keys,
                            IF from > Len(s) THEN Len(s) ELSE from,
                            self.word_boundary)
             rest == ExtractAllFrom_after_previous_end(self, s,
                                                       start_positions, i + 1)
         IN  IF end.raised # "none"
             THEN Raise(end.raised)
             ELSE IF rest.raised # "none"
             THEN rest
             ELSE LET section == Section(s, self.include_start_keys,
                                         start_positions[i][1],
                                         start_positions[i][2], end.val)
                  IN  Return(IF section # <<>>
                             THEN <<section>> \o rest.val
                             ELSE rest.val)

\* the loop "for start_idx_start, start_idx_end in start_positions" from index
\* i on: the sections appended, or the exception of the first end search
RECURSIVE ExtractAllFrom(_, _, _, _)
ExtractAllFrom(self, s, start_positions, i) ==
    LET appended(section, rest) ==
            IF rest.raised # "none"
            THEN rest
            ELSE Return(IF section # <<>>
                        THEN <<section>> \o rest.val
                        ELSE rest.val)
        ended(end) ==
            IF end.raised # "none"
            THEN Raise(end.raised)
            ELSE appended(Section(s, self.include_start_keys,
                                  start_positions[i][1],
                                  start_positions[i][2], end.val),
                          ExtractAllFrom(self, s, start_positions, i + 1))
    IN  IF i > Len(start_positions)
        THEN Return(<<>>)
        ELSE ended(FindEnd(self.match_strategy, s, self.end_keys,
                           start_positions[i][1], self.word_boundary))

\* SectionExtractor.extract_all
extract_all(self, s) ==
    LET sections(start_positions) ==
            IF start_positions.raised # "none"
            THEN Raise(start_positions.raised)
            ELSE ExtractAllFrom(self, s, start_positions.val, 1)
    IN  sections(_find_start_position_all(s, self.start_keys,
                                          self.word_boundary))

-----------------------------------------------------------------------------
(* Inputs *)

\* one lower-case and one upper-case word character, and whitespace
Alphabet == {"a", "B", " "}

RECURSIVE SeqsUpTo(_, _)
SeqsUpTo(S, n) ==
    IF n = 0
    THEN {<<>>}
    ELSE SeqsUpTo(S, n - 1) \cup
         {Append(q, x) : q \in {r \in SeqsUpTo(S, n - 1) : Len(r) = n - 1},
                         x \in S}

\* the generated markers: two single words and a word that extends one of them
Keys == {<<"a">>, <<"b">>, <<"a", "b">>}

\* markers with characters that the pattern language gives a meaning:
\* "a\W*", the word and the non-word characters after it, as in the markers
\* "history\W*" of the documentation
NonWordTail == <<"a", "\\", "W", "*">>

\* "a?", a marker that also matches the empty string
Optional == <<"a", "?">>

\* "", the empty marker
Empty == <<>>

\* "**a**", a word in markdown emphasis as in "**HISTORY:**", which is no
\* well-formed pattern: its first "*" has nothing to repeat
Emphasized == <<"*", "*", "a", "*", "*">>

\* a marker with a Latin-1 letter
Accented == <<"é">>

\* "(^|a){1,2}", a bounded repeat of a group that can match the empty
\* string: its first iteration may consume nothing and a second one follows
BoundedRepeat == <<"(", "^", "|", "a", ")", "{", "1", ",", "2", "}">>

\* the no-break space U+00A0
NBSP == Latin1[160]

\* marker lists with such markers, alone and beside a word
PatternKeyLists ==
    {List(l) : l \in {<<NonWordTail>>, <<NonWordTail, <<"b">>>>,
                      <<Optional>>, <<<<"b">>, Optional>>,
                      <<Empty>>, <<Empty, <<"a">>>>, <<<<"a">>, Empty>>,
                      <<Emphasized>>, <<<<"a">>, Emphasized>>,
                      <<Accented>>, <<BoundedRepeat>>}}

\* the markers of the generated extractors
ExtractorKeys == {<<"a">>, <<"b">>}

\* the marker lists over K: None, the empty list, and the lists without
\* repetition of at most MaxKeys markers
KeyListsOver(K) ==
    {None} \cup
    {List(l) : l \in {q \in SeqsUpTo(K, MaxKeys) :
                         \A i, j \in 1..Len(q) : q[i] = q[j] => i = j}}

\* "HISTORY: a\nIMPRESSION: b\nFINDINGS: c"
ReportReversed ==
    <<"H", "I", "S", "T", "O", "R", "Y", ":", " ", "a", "\n", "I", "M", "P", "R", "E", "S", "S", "I", "O", "N", ":", " ", "b", "\n", "F", "I", "N", "D", "I", "N", "G", "S", ":", " ", "c">>

\* "Human: Hi\nAI: Hello\nHuman: Bye\nAI: See ya"
Dialogue ==
    <<"H", "u", "m", "a", "n", ":", " ", "H", "i", "\n", "A", "I", ":", " ", "H", "e", "l", "l", "o", "\n", "H", "u", "m", "a", "n", ":", " ", "B", "y", "e", "\n", "A", "I", ":", " ", "S", "e", "e", " ", "y", "a">>

HUMAN == <<"H", "u", "m", "a", "n">>
AI == <<"A", "I">>

HISTORY == <<"H", "I", "S", "T", "O", "R", "Y">>
FINDINGS == <<"F", "I", "N", "D", "I", "N", "G", "S">>
IMPRESSION == <<"I", "M", "P", "R", "E", "S", "S", "I", "O", "N">>

\* the generated texts, the report with IMPRESSION before FINDINGS, a text
\* with punctuation between two words, the alternating dialogue, a text
\* with three occurrences of a word, a word after a Latin-1 capital letter,
\* and a word between no-break spaces
Texts ==
    SeqsUpTo(Alphabet, MaxTextLen) \cup
    {ReportReversed, <<"a", ":", "b">>, Dialogue, <<"a", " ", "a", " ", "a">>,
     <<"É", "a">>, <<NBSP, "a", NBSP>>}

Strategies == match_strategy_options \cup {"other"}

-----------------------------------------------------------------------------
(* Operations.  A caller is given constructor arguments and a text, builds  *)
(* an extractor from the arguments and applies it to the text, in any order *)
(* and any number of times.                                                 *)

\* every option with the given start and end marker lists
ArgsWith(start_lists, end_lists) ==
    [start_keys : start_lists, end_keys : end_lists,
     include_start_keys : BOOLEAN, word_boundary : BOOLEAN,
     match_strategy : Strategies]

\* the valid extractors with a pattern among the start markers or among the
\* end markers
PatternArgs ==
    {a \in ArgsWith({List(<<NonWordTail>>)}, {None, List(<<<<"b">>>>)}) \cup
           ArgsWith({List(<<Accented>>), List(<<Emphasized>>),
                     List(<<Empty, <<"a">>>>), List(<<<<"a">>, Empty>>),
                     List(<<BoundedRepeat>>)},
                    {None}) \cup
           ArgsWith({List(<<<<"a">>>>)},
                    {List(<<Optional>>), List(<<Emphasized>>),
                     List(<<<<"b">>, Emphasized>>)}) :
        a.match_strategy \in match_strategy_options}

\* the generated extractors, the history extractor of spec.md section 8, an
\* extractor whose end marker occurs inside its start marker, the dialogue
\* extractor, extractors with a start marker that is a prefix of another, and
\* extractors with a pattern among the start markers or the end markers
ConstructorArgs ==
    ArgsWith(KeyListsOver(ExtractorKeys), KeyListsOver(ExtractorKeys)) \cup
    ArgsWith({List(<<HISTORY>>)}, {List(<<FINDINGS, IMPRESSION>>)}) \cup
    ArgsWith({List(<<<<"a", ":">>>>)}, {List(<<<<":">>>>)}) \cup
    ArgsWith({List(<<HUMAN>>)}, {List(<<AI>>)}) \cup
    ArgsWith({List(<<<<"a">>, <<"a", "b">>>>), List(<<<<"a", "b">>, <<"a">>>>)},
             {None}) \cup
    PatternArgs

Init ==
    /\ arg \in ConstructorArgs
    /\ text \in Texts
    /\ ext = NoInstance
    /\ op = "none"
    /\ out = <<>>
    /\ raised = "none"
    /\ log = <<>>
    /\ stdout = <<>>
    /\ calls = <<>>

\* extractor = SectionExtractor(start_keys, end_keys, ...): on ValueError the
\* caller's variable keeps what it held
New ==
    \E r \in {SectionExtractor(arg.start_keys, arg.end_keys,
                               arg.include_start_keys, arg.word_boundary,
                               arg.match_strategy)} :
        /\ op' = "__init__"
        /\ out' = <<>>
        /\ raised' = r.raised
        /\ log' = <<>>
        /\ stdout' = <<>>
        /\ ext' = IF r.raised = "none" THEN r.val ELSE ext
        /\ UNCHANGED <<arg, text, calls>>

\* extractor.extract(text)
Extract ==
    /\ ext.constructed
    /\ \E r \in {extract(ext, text)} :
           /\ op' = "extract"
           /\ out' = r.val
           /\ raised' = r.raised
           /\ log' = r.log
           /\ stdout' = <<>>
           /\ UNCHANGED <<arg, text, ext, calls>>

\* extractor.extract_all(text)
ExtractAll ==
    /\ ext.constructed
    /\ \E r \in {extract_all(ext, text)} :
           /\ op' = "extract_all"
           /\ out' = r.val
           /\ raised' = r.raised
           /\ log' = <<>>
           /\ stdout' = <<>>
           /\ UNCHANGED <<arg, text, ext, calls>>

\* extract_section(text, start_keys, end_keys, include_start_keys,
\*                 word_boundary, match_strategy=match_strategy)
ExtractSection ==
    /\ \E r \in {extract_section(text, arg.start_keys, arg.end_keys,
                                 arg.include_start_keys, arg.word_boundary,
                                 arg.match_strategy)} :
           /\ op' = "extract_section"
           /\ out' = r.val
           /\ raised' = r.raised
           /\ log' = r.log
           /\ stdout' = <<>>
    /\ UNCHANGED <<arg, text, ext, calls>>

\* extract_section2(text, start_keys, end_keys, include_start_keys,
\*                  word_boundary)
ExtractSection2 ==
    /\ \E r \in {extract_section2(text, arg.start_keys, arg.end_keys,
                                  arg.include_start_keys, arg.word_boundary)} :
           /\ op' = "extract_section2"
           /\ out' = r.val
           /\ raised' = r.raised
           /\ log' = r.log
           /\ stdout' = <<>>
    /\ UNCHANGED <<arg, text, ext, calls>>

Next == New \/ Extract \/ ExtractAll \/ ExtractSection \/ ExtractSection2

Spec == Init /\ [][Next]_vars

-----------------------------------------------------------------------------
(* The position functions called directly.  A caller is given a marker      *)
(* list, a word-boundary flag, a verbose flag, a start offset and a text.    *)

\* verbose is a parameter of the start search only and start_pos one of the
\* end searches only: verbose is switched off with start offset 0 only
FinderArgs ==
    {a \in [keys : KeyListsOver(Keys) \cup {List(<<FINDINGS, IMPRESSION>>)}
                       \cup PatternKeyLists,
            word_boundary : BOOLEAN,
            verbose : BOOLEAN,
            start_pos : 0..(MaxTextLen + 1)] :
        a.verbose \/ a.start_pos = 0}

InitFinder ==
    /\ text \in Texts
    /\ arg \in {a \in FinderArgs : a.start_pos <= Len(text)}
    /\ ext = NoInstance
    /\ op = "none"
    /\ out = <<>>
    /\ raised = "none"
    /\ log = <<>>
    /\ stdout = <<>>
    /\ calls = <<>>

\* _find_start_position(text, keys, word_boundary)
FindStart ==
    \E r \in {_find_start_position(text, arg.keys, arg.word_boundary)} :
        /\ op' = "_find_start_position"
        /\ out' = r.val
        /\ raised' = r.raised
        /\ log' = r.log
        /\ stdout' = <<>>
        /\ UNCHANGED <<arg, text, ext, calls>>

\* _find_start_position_greedy(text, keys, word_boundary, verbose=verbose)
FindStartGreedy ==
    \E r \in {_find_start_position_greedy(text, arg.keys, arg.word_boundary,
                                          arg.verbose)} :
        /\ op' = "_find_start_position_greedy"
        /\ out' = r.val
        /\ raised' = r.raised
        /\ log' = <<>>
        /\ stdout' = r.printed
        /\ UNCHANGED <<arg, text, ext, calls>>

\* _find_start_position_all(text, keys, word_boundary)
FindStartAll ==
    \E r \in {_find_start_position_all(text, arg.keys, arg.word_boundary)} :
        /\ op' = "_find_start_position_all"
        /\ out' = r.val
        /\ raised' = r.raised
        /\ log' = <<>>
        /\ stdout' = <<>>
        /\ UNCHANGED <<arg, text, ext, calls>>

\* _find_end_position_greedy(text, keys, start_pos, word_boundary)
FindEndGreedy ==
    \E r \in {_find_end_position_greedy(text, arg.keys, arg.start_pos,
                                        arg.word_boundary)} :
        /\ op' = "_find_end_position_greedy"
        /\ out' = r.val
        /\ raised' = r.raised
        /\ log' = <<>>
        /\ stdout' = <<>>
        /\ UNCHANGED <<arg, text, ext, calls>>

\* _find_end_position_sequential(text, keys, start_pos, word_boundary)
FindEndSequential ==
    \E r \in {_find_end_position_sequential(text, arg.keys, arg.start_pos,
                                            arg.word_boundary)} :
        /\ op' = "_find_end_position_sequential"
        /\ out' = r.val
        /\ raised' = r.raised
        /\ log' = <<>>
        /\ stdout' = <<>>
        /\ UNCHANGED <<arg, text, ext, calls>>

NextFinder ==
    \/ FindStart
    \/ FindStartGreedy
    \/ FindStartAll
    \/ FindEndGreedy
    \/ FindEndSequential

SpecFinder == InitFinder /\ [][NextFinder]_vars

-----------------------------------------------------------------------------
(* The warning helper called directly.  A caller is given a list of keys    *)
(* and a text.                                                               *)

WarnArgs ==
    [keys : (KeyListsOver(Keys) \ {None}) \cup PatternKeyLists]

InitWarn ==
    /\ text \in Texts
    /\ arg \in WarnArgs
    /\ ext = NoInstance
    /\ op = "none"
    /\ out = <<>>
    /\ raised = "none"
    /\ log = <<>>
    /\ stdout = <<>>
    /\ calls = <<>>

\* _warn_dup_pattern(text, keys)
WarnDupPattern ==
    \E r \in {_warn_dup_pattern(text, arg.keys.list)} :
        /\ op' = "_warn_dup_pattern"
        /\ out' = <<>>
        /\ raised' = r.raised
        /\ log' = r.log
        /\ stdout' = <<>>
        /\ UNCHANGED <<arg, text, ext, calls>>

NextWarn == WarnDupPattern

SpecWarn == InitWarn /\ [][NextWarn]_vars

-----------------------------------------------------------------------------
(* The canonical facade, RadReportExtractor: one SectionExtractor per        *)
(* canonical section, each with its start markers and the markers of the     *)
(* sections that follow it in the typical order; the title starts at the     *)
(* start of the text and ends at the first marker of any other section.      *)

\* the canonical sections after the title, in the typical order
SectionOrder == <<"history", "technique", "comparison", "findings", "impression">>

SectionNames == {"title"} \cup Range(SectionOrder)

\* @dataclass SectionConfig
SectionConfig(name, start_keys, next_section_keys) ==
    [name |-> name, start_keys |-> start_keys,
     next_section_keys |-> next_section_keys]

\* a section table in which a section ends only at the markers of the section
\* directly after it in the typical order
RadReportExtractor_next_section_only(keys_history, keys_technique, keys_comparison, keys_findings, keys_impression) ==
    [constructed |-> TRUE,
     section_configs |->
        [name \in SectionNames |->
            CASE name = "title" ->
                    SectionConfig(name, None,
                                  List(keys_history \o keys_technique \o
                                       keys_comparison \o keys_findings \o
                                       keys_impression))
              [] name = "history" ->
                    SectionConfig(name, List(keys_history),
                                  List(keys_technique))
              [] name = "technique" ->
                    SectionConfig(name, List(keys_technique),
                                  List(keys_comparison))
              [] name = "comparison" ->
                    SectionConfig(name, List(keys_comparison),
                                  List(keys_findings))
              [] name = "findings" ->
                    SectionConfig(name, List(keys_findings),
                                  List(keys_impression))
              [] OTHER ->
                    SectionConfig(name, List(keys_impression), None)]]

\* RadReportExtractor(keys_history=..., ...): the section table
RadReportExtractor(keys_history, keys_technique, keys_comparison, keys_findings, keys_impression) ==
    [constructed |-> TRUE,
     section_configs |->
        [name \in SectionNames |->
            CASE name = "title" ->
                    SectionConfig(name, None,
                                  List(keys_history \o keys_technique \o
                                       keys_comparison \o keys_findings \o
                                       keys_impression))
              [] name = "history" ->
                    SectionConfig(name, List(keys_history),
                                  List(keys_technique \o keys_comparison \o
                                       keys_findings \o keys_impression))
              [] name = "technique" ->
                    SectionConfig(name, List(keys_technique),
                                  List(keys_comparison \o keys_findings \o
                                       keys_impression))
              [] name = "comparison" ->
                    SectionConfig(name, List(keys_comparison),
                                  List(keys_findings \o keys_impression))
              [] name = "findings" ->
                    SectionConfig(name, List(keys_findings),
                                  List(keys_impression))
              [] OTHER ->
                    SectionConfig(name, List(keys_impression), None)]]

NoFacade == [constructed |-> FALSE]

\* the absent value of a record field (no match), or the extracted string
Field(section) ==
    IF section = <<>>
    THEN [isNone |-> TRUE, str |-> <<>>]
    ELSE [isNone |-> FALSE, str |-> section]

\* one section of the facade: the section's extractor applied to the text
RadReportExtractor_extract_section(self, name, s, include_key, word_boundary, match_strategy) ==
    LET config == self.section_configs[name]
        extractor == SectionExtractor(config.start_keys,
                                      config.next_section_keys,
                                      include_key, word_boundary,
                                      match_strategy)
    IN  IF extractor.raised # "none"
        THEN Raise(extractor.raised)
        ELSE extract(extractor.val, s)

\* the record assembled from the sections extracted, or the exception that
\* the extraction of one of them raised
RadReport(sections) ==
    IF \E name \in SectionNames : sections[name].raised # "none"
    THEN Raise("ValueError")
    ELSE Return([name \in SectionNames |-> Field(sections[name].val)])

\* RadReportExtractor.extract_all(text, include_key, word_boundary): every
\* section's extractor on the same text, assembled into the record
RadReportExtractor_extract_all(self, s, include_key, word_boundary) ==
    RadReport([name \in SectionNames |->
                  RadReportExtractor_extract_section(
                      self, name, s, include_key, word_boundary, "greedy")])

\* markers of the five sections, and a marker given as an override
TECHNIQUE == <<"T", "E", "C", "H", "N", "I", "Q", "U", "E">>
COMPARISON == <<"C", "O", "M", "P", "A", "R", "I", "S", "O", "N">>
DESCRIPTION == <<"D", "E", "S", "C", "R", "I", "P", "T", "I", "O", "N">>

DefaultKeys ==
    [name \in Range(SectionOrder) |->
        CASE name = "history" -> <<HISTORY>>
          [] name = "technique" -> <<TECHNIQUE>>
          [] name = "comparison" -> <<COMPARISON>>
          [] name = "findings" -> <<FINDINGS>>
          [] OTHER -> <<IMPRESSION>>]

\* the content of a section in the generated reports
ContentOf ==
    [name \in Range(SectionOrder) |->
        CASE name = "history" -> "h"
          [] name = "technique" -> "t"
          [] name = "comparison" -> "c"
          [] name = "findings" -> "f"
          [] OTHER -> "i"]

\* "<marker>: <content>"
Block(marker, name) == marker \o <<":", " ", ContentOf[name]>>

\* the blocks of the sections of order from index i on, each after sep; the
\* findings block is headed by findings_marker
RECURSIVE Blocks(_, _, _, _)
Blocks(order, sep, findings_marker, i) ==
    IF i > Len(order)
    THEN <<>>
    ELSE sep \o
         Block(IF order[i] = "findings"
               THEN findings_marker
               ELSE DefaultKeys[order[i]][1], order[i]) \o
         Blocks(order, <<"\n">>, findings_marker, i + 1)

\* a report: the title line "T" and the sections of order
Report(order, sep, findings_marker) ==
    <<"T">> \o Blocks(order, sep, findings_marker, 1)

\* the reversed typical order
ReversedOrder ==
    [i \in 1..Len(SectionOrder) |-> SectionOrder[Len(SectionOrder) + 1 - i]]

\* the sections of a report: at most MaxSections sections in any order, each
\* at most once, or all of them in the typical or in the reversed order
Orders ==
    {q \in SeqsUpTo(Range(SectionOrder), MaxSections) :
        \A i, j \in 1..Len(q) : q[i] = q[j] => i = j} \cup
    {SectionOrder, ReversedOrder}

StandardReport == Report(SectionOrder, <<"\n">>, FINDINGS)

\* the standard report with the marker of the comparison section deleted
StandardReportWithoutComparisonMarker ==
    <<"T">> \o
    Blocks(<<"history", "technique">>, <<"\n">>, FINDINGS, 1) \o
    <<"\n", ":", " ", "c">> \o
    Blocks(<<"findings", "impression">>, <<"\n">>, FINDINGS, 1)

\* the generated reports; short reports whose first marker follows the title
\* without a separator, or whose findings are headed by the override marker;
\* and the standard report without the comparison marker
FacadeTexts ==
    {Report(q, <<"\n">>, FINDINGS) : q \in Orders} \cup
    {Report(q, <<>>, FINDINGS) : q \in {r \in Orders : Len(r) <= 2}} \cup
    {Report(q, <<"\n">>, DESCRIPTION) : q \in {r \in Orders : Len(r) <= 2}} \cup
    {StandardReportWithoutComparisonMarker}

FacadeArgs ==
    [keys_findings : {<<FINDINGS>>, <<DESCRIPTION, FINDINGS>>},
     include_key : BOOLEAN,
     word_boundary : BOOLEAN]

InitFacade ==
    /\ arg \in FacadeArgs
    /\ text \in FacadeTexts
    /\ ext = NoFacade
    /\ op = "none"
    /\ out = <<>>
    /\ raised = "none"
    /\ log = <<>>
    /\ stdout = <<>>
    /\ calls = <<>>

\* extractor = RadReportExtractor(keys_findings=...)
NewFacade ==
    /\ op' = "RadReportExtractor"
    /\ ext' = RadReportExtractor(DefaultKeys["history"],
                                 DefaultKeys["technique"],
                                 DefaultKeys["comparison"],
                                 arg.keys_findings,
                                 DefaultKeys["impression"])
    /\ out' = <<>>
    /\ raised' = "none"
    /\ log' = <<>>
    /\ stdout' = <<>>
    /\ UNCHANGED <<arg, text, calls>>

\* extractor.extract_all(text, include_key=..., word_boundary=...)
FacadeExtractAll ==
    /\ ext.constructed
    /\ \E r \in {RadReportExtractor_extract_all(ext, text, arg.include_key,
                                                arg.word_boundary)} :
           /\ op' = "RadReportExtractor.extract_all"
           /\ out' = r.val
           /\ raised' = r.raised
           /\ log' = <<>>
           /\ stdout' = <<>>
           /\ UNCHANGED <<arg, text, ext, calls>>

NextFacade == NewFacade \/ FacadeExtractAll

SpecFacade == InitFacade /\ [][NextFacade]_vars

-----------------------------------------------------------------------------
(* Concurrent calls.  Threads share one SectionExtractor instance; each     *)
(* call of extract or extract_all runs statement by statement on a frame of *)
(* its own, which holds the text it was given and its local variables, and  *)
(* a thread may be pre-empted between any two statements.                   *)

\* the number of threads
MaxThreads == 2

Threads == 1..MaxThreads

\* the frame of a thread that makes no call; preempted records that another
\* thread has run a statement while the call was in progress
Idle ==
    [method |-> "none", text |-> <<>>, pc |-> "idle", start_positions |-> <<>>,
     i |-> 0, end_idx |-> 0, sections |-> <<>>, result |-> Return(<<>>),
     preempted |-> FALSE]

\* the frame on entry of extract(text) or extract_all(text)
Frame(method, s) ==
    [Idle EXCEPT !.method = method, !.text = s, !.pc = "start"]

\* the frame on return or raise
Done(frame, result) ==
    [frame EXCEPT !.pc = "done", !.result = result]

\* the frame after the next statement of extract.  The start search is
\* entered: without markers it returns (0, 0) at once.  Its warning loop
\* counts one key per iteration and, for a key with 2 matches or more, sends
\* a warning to logging; when the loop is left, the markers are compiled and
\* searched.  Then come the end search and the slice.
extract_statement(self, frame) ==
    IF frame.pc = "start"
    THEN IF self.start_keys.isNone
         THEN [frame EXCEPT !.start_positions = << <<0, 0>> >>, !.i = 1,
                            !.pc = "end"]
         ELSE [frame EXCEPT !.i = 1, !.pc = "warn"]
    ELSE IF frame.pc = "warn"
    THEN IF frame.i <= Len(self.start_keys.list)
         THEN IF findall_count(self.start_keys.list[frame.i],
                               frame.text).raised # "none"
              THEN Done(frame,
                        Raise(findall_count(self.start_keys.list[frame.i],
                                            frame.text).raised))
              ELSE [frame EXCEPT !.i = @ + 1]
         ELSE LET pattern == _pattern_keys(self.start_keys.list,
                                           word_boundary_default)
              IN  IF pattern.raised # "none"
                  THEN Done(frame, Raise(pattern.raised))
                  ELSE IF search(pattern.val, frame.text, 0) = NoMatch
                  THEN Done(frame, Return(<<>>))
                  ELSE [frame EXCEPT
                           !.start_positions =
                               <<search(pattern.val, frame.text, 0)>>,
                           !.i = 1, !.pc = "end"]
    ELSE IF frame.pc = "end"
    THEN LET end == FindEnd(self.match_strategy, frame.text, self.end_keys,
                            frame.start_positions[1][1],
                            word_boundary_default)
         IN  IF end.raised # "none"
             THEN Done(frame, Raise(end.raised))
             ELSE [frame EXCEPT !.end_idx = end.val, !.pc = "slice"]
    ELSE Done(frame,
              Return(Section(frame.text, self.include_start_keys,
                             frame.start_positions[1][1],
                             frame.start_positions[1][2], frame.end_idx)))

\* the frame after the next statement of extract_all: the start search, the
\* loop test, the end search of an iteration, its slice and append
extract_all_statement(self, frame) ==
    IF frame.pc = "start"
    THEN LET start_positions ==
                 _find_start_position_all(frame.text, self.start_keys,
                                          self.word_boundary)
         IN  IF start_positions.raised # "none"
             THEN Done(frame, Raise(start_positions.raised))
             ELSE IF start_positions.val = <<>>
             THEN Done(frame, Return(<<>>))
             ELSE [frame EXCEPT !.start_positions = start_positions.val,
                                !.i = 1, !.pc = "end"]
    ELSE IF frame.pc = "end"
    THEN IF frame.i > Len(frame.start_positions)
         THEN Done(frame, Return(frame.sections))
         ELSE LET end == FindEnd(self.match_strategy, frame.text,
                                 self.end_keys,
                                 frame.start_positions[frame.i][1],
                                 self.word_boundary)
              IN  IF end.raised # "none"
                  THEN Done(frame, Raise(end.raised))
                  ELSE [frame EXCEPT !.end_idx = end.val, !.pc = "slice"]
    ELSE LET section == Section(frame.text, self.include_start_keys,
                                frame.start_positions[frame.i][1],
                                frame.start_positions[frame.i][2],
                                frame.end_idx)
         IN  [frame EXCEPT !.sections = IF section # <<>>
                                        THEN Append(@, section)
                                        ELSE @,
                           !.i = @ + 1, !.pc = "end"]

\* the frame after the next statement of the method the frame is in
Statement(self, frame) ==
    IF frame.method = "extract"
    THEN extract_statement(self, frame)
    ELSE extract_all_statement(self, frame)

\* the warnings that the next statement of the frame's method sends to
\* logging: the warning of an iteration of the warning loop of extract
Logged(self, frame) ==
    IF /\ frame.method = "extract"
       /\ frame.pc = "warn"
       /\ frame.i <= Len(self.start_keys.list)
       /\ findall_count(self.start_keys.list[frame.i],
                        frame.text).raised = "none"
    THEN Warning(self.start_keys.list[frame.i],
                 findall_count(self.start_keys.list[frame.i], frame.text).val)
    ELSE <<>>

\* methods that keep the start positions they found in an attribute of the
\* instance and read them from there in the statements that follow
method_step_positions_on_self(self, frame) ==
    LET kept  == IF "start_positions" \in DOMAIN self /\ frame.pc # "start"
                 THEN [frame EXCEPT
                          !.start_positions = self.start_positions]
                 ELSE frame
        after == Statement(self, kept)
    IN  [self  |-> [f \in DOMAIN self \cup {"start_positions"} |->
                       IF f = "start_positions"
                       THEN after.start_positions
                       ELSE self[f]],
         frame |-> after,
         log |-> Logged(self, kept)]

\* the instance and the frame after the next statement of a method: the
\* methods assign to local variables only, never to an attribute of self
method_step(self, frame) ==
    [self |-> self, frame |-> Statement(self, frame),
     log |-> Logged(self, frame)]

\* the valid extractors with one start marker and at most one end marker
ThreadArgs ==
    [start_keys : {List(<<<<"a">>>>)},
     end_keys : {None, List(<<<<"b">>>>)},
     include_start_keys : BOOLEAN, word_boundary : BOOLEAN,
     match_strategy : match_strategy_options]

\* texts on which the extractors return different sections
ThreadTexts == {<<"a", " ", "B">>, <<"B", " ", "a", " ", "a">>}

InitThreads ==
    /\ arg \in ThreadArgs
    /\ text = <<>>
    /\ ext = NoInstance
    /\ op = "none"
    /\ out = <<>>
    /\ raised = "none"
    /\ log = <<>>
    /\ stdout = <<>>
    /\ calls = [t \in Threads |-> Idle]

\* the instance is built once, before the threads are started
NewShared ==
    /\ ~ext.constructed
    /\ \A t \in Threads : calls[t] = Idle
    /\ \E r \in {SectionExtractor(arg.start_keys, arg.end_keys,
                                  arg.include_start_keys, arg.word_boundary,
                                  arg.match_strategy)} :
           /\ op' = "__init__"
           /\ raised' = r.raised
           /\ ext' = IF r.raised = "none" THEN r.val ELSE ext
           /\ UNCHANGED <<arg, text, out, log, stdout, calls>>

\* thread t calls extractor.extract(s) or extractor.extract_all(s); the
\* threads are started in the order of their numbers
Call(t) ==
    /\ ext.constructed
    /\ calls[t].pc = "idle"
    /\ \A u \in Threads : u < t => calls[u].pc # "idle"
    /\ \E method \in {"extract", "extract_all"}, s \in ThreadTexts :
           calls' = [calls EXCEPT ![t] = Frame(method, s)]
    /\ UNCHANGED <<arg, text, ext, op, out, raised, log, stdout>>

\* the call of a frame has been entered and has not returned
InProgress(frame) == frame.pc \notin {"idle", "done"}

\* thread t executes the next statement of its call; the warnings of the
\* statement follow those that the logging sink holds
Step(t) ==
    /\ InProgress(calls[t])
    /\ \E r \in {method_step(ext, calls[t])} :
           /\ ext' = r.self
           /\ log' = log \o r.log
           /\ calls' = [u \in Threads |->
                           IF u = t
                           THEN r.frame
                           ELSE IF InProgress(calls[u])
                           THEN [calls[u] EXCEPT !.preempted = TRUE]
                           ELSE calls[u]]
    /\ UNCHANGED <<arg, text, op, out, raised, stdout>>

NextThreads ==
    \/ NewShared
    \/ \E t \in Threads : Call(t)
    \/ \E t \in Threads : Step(t)

SpecThreads == InitThreads /\ [][NextThreads]_vars

-----------------------------------------------------------------------------
(* Properties of the end search *)

\* every marker of the list is a pattern on its own
WellFormed(keys) ==
    \A i \in 1..Len(keys) : re_compile(keys[i]).raised = "none"

\* the spans of s that the marker k, a pattern on its own, can match: from
\* every offset, every end that the pattern reaches from there
KeySpans(k, s) ==
    LET p == re_compile(k)
    IN  IF p.raised # "none"
        THEN {}
        ELSE UNION {{<<i, e>> : e \in Range(Ends(p.val, s, i))} :
                    i \in 0..Len(s)}

\* the spans of the matches of the single marker k: with word_boundary the
\* spans that begin and end on a word edge
MarkerSpans(k, s, word_boundary) ==
    {m \in KeySpans(k, s) :
        word_boundary => (WordBoundaryAt(s, m[1]) /\ WordBoundaryAt(s, m[2]))}

\* the spans of the matches of any marker of the list
AnyMarkerSpans(keys, s, word_boundary) ==
    UNION {MarkerSpans(keys[i], s, word_boundary) : i \in 1..Len(keys)}

\* the offsets of s at which a match of the single marker k begins
MarkerStarts(k, s, word_boundary) ==
    {m[1] : m \in MarkerSpans(k, s, word_boundary)}

\* the offsets of s at which a match of any marker of the list begins
AnyMarkerStarts(keys, s, word_boundary) ==
    UNION {MarkerStarts(keys[i], s, word_boundary) : i \in 1..Len(keys)}

\* the indices of the markers of the list that match somewhere in s
MatchingMarkers(keys, s, word_boundary) ==
    {i \in 1..Len(keys) : MarkerStarts(keys[i], s, word_boundary) # {}}

\* the rearrangements of a list
Permutations(q) ==
    {[i \in 1..Len(q) |-> q[f[i]]] :
        f \in {g \in [1..Len(q) -> 1..Len(q)] :
                  \A i, j \in 1..Len(q) : g[i] = g[j] => i = j}}

\* the text the end search looks at, text[start_pos:]
Remainder == Slice(text, arg.start_pos, Len(text))

\* C1: the greedy end search returns the smallest offset p >= start_pos at
\* which a match of any end marker begins within text[start_pos:], and
\* len(text) when the markers are None or none matches there; the result is
\* the same under every permutation of the marker list.
C1_GreedyEarliestOfAnyMarker ==
    (op = "_find_end_position_greedy" /\ raised = "none") =>
        LET starts == AnyMarkerStarts(arg.keys.list, Remainder,
                                      arg.word_boundary)
        IN  /\ out = IF arg.keys.isNone \/ starts = {}
                     THEN Len(text)
                     ELSE arg.start_pos + Min(starts)
            /\ ~arg.keys.isNone =>
                  \A q \in Permutations(arg.keys.list) :
                      LET permuted ==
                              _find_end_position_greedy(text, List(q),
                                                        arg.start_pos,
                                                        arg.word_boundary)
                      IN  permuted.raised = "none" /\ permuted.val = out

\* the greedy search stopped at the second listed marker, which matches
\* before the first listed one does, searching from inside the text
C1_Witness ==
    /\ op = "_find_end_position_greedy"
    /\ raised = "none"
    /\ ~arg.keys.isNone
    /\ Len(arg.keys.list) = 2
    /\ arg.start_pos > 0
    /\ MatchingMarkers(arg.keys.list, Remainder, arg.word_boundary) = {1, 2}
    /\ out = arg.start_pos +
             Min(MarkerStarts(arg.keys.list[2], Remainder, arg.word_boundary))
    /\ out < arg.start_pos +
             Min(MarkerStarts(arg.keys.list[1], Remainder, arg.word_boundary))

\* C2: the sequential end search returns start_pos plus the start of the first
\* match, within text[start_pos:], of the lowest-index marker that matches
\* there at all, even when a later marker matches at a smaller offset, and
\* len(text) when the markers are None or no listed marker matches.
C2_SequentialFirstListedMarker ==
    (op = "_find_end_position_sequential" /\ raised = "none") =>
        LET matching == MatchingMarkers(arg.keys.list, Remainder,
                                        arg.word_boundary)
        IN  out = IF arg.keys.isNone \/ matching = {}
                  THEN Len(text)
                  ELSE arg.start_pos +
                       Min(MarkerStarts(arg.keys.list[Min(matching)],
                                        Remainder, arg.word_boundary))

\* the sequential search stopped at the first listed marker although the
\* second listed marker matches at a smaller offset
C2_Witness ==
    /\ op = "_find_end_position_sequential"
    /\ raised = "none"
    /\ ~arg.keys.isNone
    /\ Len(arg.keys.list) = 2
    /\ MatchingMarkers(arg.keys.list, Remainder, arg.word_boundary) = {1, 2}
    /\ out = arg.start_pos +
             Min(MarkerStarts(arg.keys.list[1], Remainder, arg.word_boundary))
    /\ out > arg.start_pos +
             Min(MarkerStarts(arg.keys.list[2], Remainder, arg.word_boundary))

-----------------------------------------------------------------------------
(* Properties of SectionExtractor *)

\* the history extractor of the Match Strategy example
IsReportExtractor(self) ==
    /\ self.start_keys = List(<<HISTORY>>)
    /\ self.end_keys = List(<<FINDINGS, IMPRESSION>>)

\* the offset of the first occurrence of k in s
OffsetOf(k, s) == Min(MarkerStarts(k, s, FALSE))

OtherStrategy(m) == IF m = "greedy" THEN "sequential" ELSE "greedy"

\* C3: on the report whose markers appear as HISTORY, IMPRESSION, FINDINGS,
\* with start markers [HISTORY] and end markers [FINDINGS, IMPRESSION], the
\* greedy strategy ends the section just before IMPRESSION and the sequential
\* strategy just before FINDINGS, so the two strategies return different
\* strings.
C3_StrategiesDifferOnReversedReport ==
    (op = "extract" /\ text = ReportReversed /\ IsReportExtractor(ext)) =>
        /\ raised = "none"
        /\ out = strip(Slice(text,
                             IF ext.include_start_keys THEN 0 ELSE Len(HISTORY),
                             OffsetOf(IF ext.match_strategy = "greedy"
                                      THEN IMPRESSION
                                      ELSE FINDINGS, text)))
        /\ out # extract([ext EXCEPT !.match_strategy = OtherStrategy(@)],
                         text).val

\* the sequential history extractor returned the text up to FINDINGS, which
\* contains the IMPRESSION line
C3_Witness ==
    /\ op = "extract"
    /\ text = ReportReversed
    /\ IsReportExtractor(ext)
    /\ ext.match_strategy = "sequential"
    /\ ext.include_start_keys
    /\ Len(out) = OffsetOf(FINDINGS, text) - 1
    /\ MarkerStarts(IMPRESSION, out, TRUE) # {}

\* a marker list that can be compiled: None or at least one marker, each of
\* them a pattern on its own
Compilable(keys) ==
    keys.isNone \/ (Len(keys.list) > 0 /\ WellFormed(keys.list))

\* the section of the first start occurrence when the start search and the
\* end search both run with the given word-boundary setting
FirstSection(self, s, word_boundary) ==
    LET start == _find_start_position(s, self.start_keys, word_boundary).val
    IN  IF start = NoMatch
        THEN <<>>
        ELSE Section(s, self.include_start_keys, start[1], start[2],
                     FindEnd(self.match_strategy, s, self.end_keys, start[1],
                             word_boundary).val)

\* C4: extract honours the extractor's word_boundary option for the start
\* search and the end search, as extract_all does: it returns the section
\* that the searches run with the configured word_boundary bound.
C4_ExtractHonoursWordBoundary ==
    (/\ op = "extract"
     /\ Compilable(ext.start_keys)
     /\ Compilable(ext.end_keys)) =>
        /\ raised = "none"
        /\ out = FirstSection(ext, text, ext.word_boundary)

\* C5: a list that is not None but empty always fails with a ValueError when
\* a position function is given it: in the start searches and in the end
\* search under both strategies.
C5_EmptyMarkerListAlwaysFails ==
    (/\ op \in {"_find_start_position", "_find_start_position_all",
                "_find_end_position_greedy", "_find_end_position_sequential"}
     /\ ~arg.keys.isNone
     /\ Len(arg.keys.list) = 0) =>
        raised = "ValueError"

\* C6: constructing a SectionExtractor with a match_strategy other than
\* "greedy" or "sequential" raises ValueError during construction, so no
\* instance carries an unrecognized strategy and extract and extract_all
\* never run on one.
C6_InvalidStrategyRejectedAtConstruction ==
    /\ (op = "__init__" /\ arg.match_strategy \notin match_strategy_options) =>
           (raised = "ValueError" /\ ~ext.constructed)
    /\ ext.constructed => ext.match_strategy \in match_strategy_options
    /\ op \in {"extract", "extract_all"} =>
           (ext.constructed /\ ext.match_strategy \in match_strategy_options)

\* construction with the strategy "other" raised and left no instance
C6_Witness ==
    /\ op = "__init__"
    /\ arg.match_strategy = "other"
    /\ raised = "ValueError"
    /\ ~ext.constructed

\* no marker of the extractor's start list matches the text, as a raw
\* substring or on word boundaries, whichever the extractor is configured for
NoStartMarkerMatches ==
    /\ ~ext.start_keys.isNone
    /\ AnyMarkerStarts(ext.start_keys.list, text, ext.word_boundary) = {}

\* C7 as stated: if the start markers are not None and none of them matches
\* the text, extract returns "" and extract_all returns [], without raising.
C7_NoStartMatchGivesEmptyForAnyList ==
    (op \in {"extract", "extract_all"} /\ NoStartMarkerMatches) =>
        (raised = "none" /\ out = <<>>)

\* C7: if the start marker list is not None and not empty, each of its
\* markers is a pattern on its own and none of them matches the text, extract
\* returns "" and extract_all returns [], without raising, whatever the end
\* markers and the strategy.
C7_NoStartMatchGivesEmpty ==
    (/\ op \in {"extract", "extract_all"}
     /\ NoStartMarkerMatches
     /\ Len(ext.start_keys.list) > 0
     /\ WellFormed(ext.start_keys.list)) =>
        (raised = "none" /\ out = <<>>)

\* extract returned "" on a text without the start marker although the end
\* marker list is empty and the text is not
C7_Witness ==
    /\ op = "extract"
    /\ NoStartMarkerMatches
    /\ Len(ext.start_keys.list) > 0
    /\ WellFormed(ext.start_keys.list)
    /\ ext.end_keys = List(<<>>)
    /\ strip(text) # <<>>
    /\ raised = "none"
    /\ out = <<>>

\* the span of the start marker that extract matched, NoMatch if none did
MatchedStart(self, s) ==
    _find_start_position(s, self.start_keys, word_boundary_default).val

\* str.removeprefix
removeprefix(r, prefix) ==
    IF Len(prefix) <= Len(r) /\ SubSeq(r, 1, Len(prefix)) = prefix
    THEN SubSeq(r, Len(prefix) + 1, Len(r))
    ELSE r

\* C8: extract with include_start_keys=False returns the result of extract
\* with include_start_keys=True (same text, markers, word boundary and
\* strategy) with the matched start marker removed from its front and
\* stripped again.
C8_ExcludeIsIncludeMinusStartMarker ==
    (op = "extract" /\ raised = "none" /\ ~ext.include_start_keys) =>
        LET included == extract([ext EXCEPT !.include_start_keys = TRUE], text)
            start    == MatchedStart(ext, text)
            marker   == IF start = NoMatch
                        THEN <<>>
                        ELSE Slice(text, start[1], start[2])
        IN  /\ included.raised = "none"
            /\ out = strip(removeprefix(included.val, marker))

\* the boundary the end strategy resolves in s from position 0
ResolvedEnd(match_strategy, keys, s, word_boundary) ==
    IF keys.isNone
    THEN Len(s)
    ELSE LET matching == MatchingMarkers(keys.list, s, word_boundary)
         IN  IF matching = {}
             THEN Len(s)
             ELSE IF match_strategy = "greedy"
             THEN Min(AnyMarkerStarts(keys.list, s, word_boundary))
             ELSE Min(MarkerStarts(keys.list[Min(matching)], s, word_boundary))

\* C9: extract with start_keys=None returns text[0:end].strip(), where end is
\* the boundary that the end strategy of the extractor resolves from position
\* 0 as the extractor is configured (its end markers, its strategy and its
\* word_boundary), whether include_start_keys is True or False.
C9_NoStartMarkersSliceFromZero ==
    (op = "extract" /\ raised = "none" /\ ext.start_keys.isNone) =>
        /\ out = strip(Slice(text, 0,
                             ResolvedEnd(ext.match_strategy, ext.end_keys, text,
                                         ext.word_boundary)))
        /\ out = extract([ext EXCEPT !.include_start_keys = ~@], text).val

\* a start marker of the extractor matches the text, as a raw substring or on
\* word boundaries, whichever the extractor is configured for; without start
\* markers the section starts at the start of the text
StartMarkerMatches ==
    \/ ext.start_keys.isNone
    \/ AnyMarkerStarts(ext.start_keys.list, text, ext.word_boundary) # {}

\* the span of the first match of a start marker as the extractor is
\* configured, (0, 0) without start markers
ConfiguredStart(self, s) ==
    _find_start_position(s, self.start_keys, self.word_boundary).val

\* C10: when a start marker matches, as the extractor is configured, extract
\* with end_keys=None returns the text from the start boundary (the start of
\* the match if include_start_keys, else its end) to the end of the text,
\* stripped, under the greedy and under the sequential strategy.
C10_NoEndMarkersSliceToEnd ==
    (/\ op = "extract"
     /\ ext.end_keys.isNone
     /\ Compilable(ext.start_keys)
     /\ StartMarkerMatches) =>
        LET start == ConfiguredStart(ext, text)
        IN  /\ raised = "none"
            /\ out = strip(Slice(text,
                                 IF ext.include_start_keys
                                 THEN start[1]
                                 ELSE start[2],
                                 Len(text)))
            /\ out = extract([ext EXCEPT
                                 !.match_strategy = OtherStrategy(@)], text).val

-----------------------------------------------------------------------------
(* Properties of extract_all *)

NonEmpty(x) == x # <<>>

\* the start occurrences extract_all works on
StartOccurrences(self, s) ==
    _find_start_position_all(s, self.start_keys, self.word_boundary).val

\* the stripped slice of one start occurrence, its end boundary resolved in
\* the text that begins at the occurrence's own start offset
SectionOf(self, s, occurrence) ==
    strip(Slice(s,
                IF self.include_start_keys
                THEN occurrence[1]
                ELSE occurrence[2],
                occurrence[1] +
                ResolvedEnd(self.match_strategy, self.end_keys,
                            Slice(s, occurrence[1], Len(s)),
                            self.word_boundary)))

\* C11: extract_all returns, in left-to-right order of the start occurrences,
\* the section of each start occurrence, and each occurrence's end boundary is
\* the one the end search resolves from that occurrence's own start offset,
\* not from the end of the previous section (occurrences whose section is
\* empty after stripping are left out, see C12).
C11_ExtractAllSectionPerOccurrence ==
    (op = "extract_all" /\ raised = "none") =>
        LET starts == StartOccurrences(ext, text)
        IN  /\ \A i, j \in 1..Len(starts) :
                   i < j => starts[i][2] <= starts[j][1]
            /\ out = SelectSeq([i \in 1..Len(starts) |->
                                    SectionOf(ext, text, starts[i])],
                               NonEmpty)

\* on "Human: Hi\nAI: Hello\nHuman: Bye\nAI: See ya" with start ["Human"],
\* end ["AI"], no word boundary and the start excluded, extract_all returned
\* [": Hi", ": Bye"]
C11_Witness ==
    /\ op = "extract_all"
    /\ raised = "none"
    /\ text = Dialogue
    /\ ext.start_keys = List(<<HUMAN>>)
    /\ ext.end_keys = List(<<AI>>)
    /\ ~ext.word_boundary
    /\ ~ext.include_start_keys
    /\ out = << <<":", " ", "H", "i">>, <<":", " ", "B", "y", "e">> >>

\* C12: every element of the list extract_all returns is a non-empty string
\* without leading or trailing whitespace; an occurrence whose slice strips
\* to the empty string is dropped, so the list has as many elements as there
\* are occurrences with a non-empty section and never more than there are
\* start occurrences.
C12_ExtractAllElementsNonEmptyStripped ==
    (op = "extract_all" /\ raised = "none") =>
        LET starts == StartOccurrences(ext, text)
        IN  /\ \A i \in 1..Len(out) :
                   /\ out[i] # <<>>
                   /\ ~IsSpace(out[i][1])
                   /\ ~IsSpace(out[i][Len(out[i])])
            /\ Len(out) <= Len(starts)
            /\ Len(out) =
                   Cardinality({i \in 1..Len(starts) :
                                   SectionOf(ext, text, starts[i]) # <<>>})

\* extract_all returned one section for two start occurrences: the section of
\* the other occurrence was empty and was dropped
C12_Witness ==
    /\ op = "extract_all"
    /\ raised = "none"
    /\ Len(StartOccurrences(ext, text)) = 2
    /\ Len(out) = 1
    /\ \E i \in 1..2 :
           SectionOf(ext, text, StartOccurrences(ext, text)[i]) = <<>>

-----------------------------------------------------------------------------
(* Properties of the start search *)

\* s and k are the same string up to the case of the letters
SameIgnoringCase(s, k) ==
    /\ Len(s) = Len(k)
    /\ \A j \in 1..Len(k) : IGNORECASE(s[j]) = IGNORECASE(k[j])

\* the offsets at which the marker k occurs in s as a raw substring
RawOccurrences(k, s) ==
    {p \in 0..(Len(s) - Len(k)) : SameIgnoringCase(Slice(s, p, p + Len(k)), k)}

\* the occurrence of k at offset p of s lies inside a longer word: a word
\* character stands directly before it or directly after it
Embedded(k, s, p) ==
    \/ p > 0 /\ IsWord(s[p])
    \/ p + Len(k) < Len(s) /\ IsWord(s[p + Len(k) + 1])

\* the offsets at which a marker of the list, each a word, can be matched:
\* with word_boundary the occurrences that are not embedded in a longer
\* word, without it every raw occurrence
MatchPlaces(keys, s, word_boundary) ==
    UNION {{p \in RawOccurrences(keys[i], s) :
               word_boundary => ~Embedded(keys[i], s, p)} :
           i \in 1..Len(keys)}

\* the marker is a word: not empty and made of word characters only
IsWordMarker(k) == k # <<>> /\ \A j \in 1..Len(k) : IsWord(k[j])

\* C13: with word_boundary=True a marker is matched only where the match
\* begins and ends on a word edge, so a marker (a word) that occurs only
\* inside a longer word gives no match; with word_boundary=False it is
\* matched as a raw substring anywhere in the text.
C13_WordBoundaryAnchorsMatches ==
    /\ (op \in {"_find_start_position", "_find_start_position_all"}
            /\ raised = "none" /\ ~arg.keys.isNone) =>
           \A i \in 1..Len(arg.keys.list) :
               IsWordMarker(arg.keys.list[i]) =>
                   MarkerSpans(arg.keys.list[i], text, arg.word_boundary) =
                       {<<p, p + Len(arg.keys.list[i])>> :
                           p \in MatchPlaces(<<arg.keys.list[i]>>, text,
                                             arg.word_boundary)}
    /\ (op = "_find_start_position" /\ raised = "none" /\ ~arg.keys.isNone) =>
           LET spans == AnyMarkerSpans(arg.keys.list, text, arg.word_boundary)
           IN  /\ (out = NoMatch) <=> (spans = {})
               /\ out # NoMatch =>
                      /\ out \in spans
                      /\ out[1] = Min({m[1] : m \in spans})
                      /\ arg.word_boundary =>
                             /\ WordBoundaryAt(text, out[1])
                             /\ WordBoundaryAt(text, out[2])
    /\ (op = "_find_start_position_all" /\ raised = "none"
            /\ ~arg.keys.isNone) =>
           LET spans == AnyMarkerSpans(arg.keys.list, text, arg.word_boundary)
           IN  /\ (out = <<>>) <=> (spans = {})
               /\ \A i \in 1..Len(out) : out[i] \in spans

\* with word_boundary=True the start search found nothing although the only
\* marker occurs in the text, inside a longer word
C13_Witness ==
    /\ op = "_find_start_position"
    /\ raised = "none"
    /\ arg.word_boundary
    /\ ~arg.keys.isNone
    /\ Len(arg.keys.list) = 1
    /\ IsWordMarker(arg.keys.list[1])
    /\ RawOccurrences(arg.keys.list[1], text) # {}
    /\ \A p \in RawOccurrences(arg.keys.list[1], text) :
           Embedded(arg.keys.list[1], text, p)
    /\ out = NoMatch

\* the number of matches of the marker k, a pattern on its own, in s: the
\* matches found from left to right, each search beginning where the match
\* before it ended; 0 when k is no pattern
MatchCount(k, s) ==
    LET p == re_compile(k)
    IN  IF p.raised # "none" THEN 0 ELSE Len(finditer(p.val, s, 0))

\* C14: _find_start_position emits exactly one diagnostic for each marker of
\* the list that matches 2 or more times in the text and none for a marker
\* that matches fewer than 2 times, the diagnostic carries the marker and its
\* number of matches, and the returned span is still that of the first match
\* in the text.  (A marker that is a word of the model cannot overlap itself,
\* so the number of its matches is the number of its raw occurrences.)
C14_OneDiagnosticPerRepeatedMarker ==
    (op = "_find_start_position" /\ raised = "none" /\ ~arg.keys.isNone) =>
        LET keys == arg.keys.list
            spans == AnyMarkerSpans(keys, text, arg.word_boundary)
        IN  /\ \A i \in 1..Len(keys) :
                   /\ Cardinality({j \in 1..Len(log) : log[j].key = keys[i]}) =
                          IF MatchCount(keys[i], text) >= 2 THEN 1 ELSE 0
                   /\ IsWordMarker(keys[i]) =>
                          MatchCount(keys[i], text) =
                              Cardinality(RawOccurrences(keys[i], text))
            /\ \A j \in 1..Len(log) :
                   /\ \E i \in 1..Len(keys) : log[j].key = keys[i]
                   /\ log[j].count = MatchCount(log[j].key, text)
            /\ (out = NoMatch) <=> (spans = {})
            /\ out # NoMatch =>
                   /\ out \in spans
                   /\ out[1] = Min({m[1] : m \in spans})

\* on a text with three separate occurrences of the only marker, the start
\* search with word boundary emitted one diagnostic reporting 3 and returned
\* the span of the first occurrence
C14_Witness ==
    /\ op = "_find_start_position"
    /\ raised = "none"
    /\ arg.word_boundary
    /\ arg.keys = List(<<<<"a">>>>)
    /\ text = <<"a", " ", "a", " ", "a">>
    /\ log = Warning(<<"a">>, 3)
    /\ out = <<0, 1>>

\* C15: the duplicate-marker diagnostic never raises and never alters the
\* result: the start search returns the same span, or raises the same error,
\* whether the diagnostics are emitted (verbose=True) or suppressed
\* (verbose=False), nothing is emitted when they are suppressed, and
\* _find_start_position, which always emits them, returns the span of the
\* search with suppressed diagnostics.
C15_DiagnosticDoesNotAlterResult ==
    /\ op = "_find_start_position_greedy" =>
           LET other == _find_start_position_greedy(text, arg.keys,
                                                    arg.word_boundary,
                                                    ~arg.verbose)
           IN  /\ raised = other.raised
               /\ out = other.val
               /\ ~arg.verbose => stdout = <<>>
               /\ arg.verbose => other.printed = <<>>
               /\ log = <<>>
    /\ op = "_find_start_position" =>
           LET quiet == _find_start_position_greedy(text, arg.keys,
                                                    arg.word_boundary, FALSE)
           IN  /\ raised = quiet.raised
               /\ out = quiet.val
               /\ quiet.printed = <<>>

\* the verbose start search emitted a diagnostic and returned a match
C15_Witness ==
    /\ op = "_find_start_position_greedy"
    /\ arg.verbose
    /\ raised = "none"
    /\ stdout # <<>>
    /\ out # NoMatch
    /\ out[1] > 0

-----------------------------------------------------------------------------
(* Properties of the canonical facade *)

\* the start markers of all canonical sections other than the title
CanonicalMarkers(self) ==
    UNION {Range(self.section_configs[name].start_keys.list) :
           name \in Range(SectionOrder)}

\* the earliest offset of s at which one of the markers matches, len(s) if
\* none does
EarliestMarker(keys, s, word_boundary) ==
    IF MatchPlaces(keys, s, word_boundary) = {}
    THEN Len(s)
    ELSE Min(MatchPlaces(keys, s, word_boundary))

\* C16: the title section of the facade has no start markers and, as end
\* markers, the start markers of all other canonical sections as configured,
\* overrides included; so the title of the record is the stripped text from
\* offset 0 up to the earliest match of any canonical section marker, matched
\* with the word_boundary the extraction is called with, the whole stripped
\* text when none matches (absent when that is empty).
C16_TitleEndsAtFirstCanonicalMarker ==
    (op = "RadReportExtractor.extract_all" /\ raised = "none") =>
        LET title == ext.section_configs["title"]
        IN  /\ title.start_keys.isNone
            /\ ~title.next_section_keys.isNone
            /\ Range(title.next_section_keys.list) = CanonicalMarkers(ext)
            /\ Range(arg.keys_findings) \subseteq CanonicalMarkers(ext)
            /\ out["title"] =
                   Field(strip(Slice(text, 0,
                                     EarliestMarker(title.next_section_keys.list,
                                                    text,
                                                    arg.word_boundary))))

\* the record the facade extracts from the standard report once the marker
\* of the comparison section is deleted from it
AfterDeletion ==
    RadReportExtractor_extract_all(ext, StandardReportWithoutComparisonMarker,
                                   arg.include_key, arg.word_boundary).val

\* C17 as stated: on the report with all six sections in standard order all
\* six fields are present, and deleting only the marker of the comparison
\* section gives a record in which exactly the comparison field is absent and
\* every other field has the value it had before.
C17_OnlyComparisonChanges ==
    (op = "RadReportExtractor.extract_all" /\ raised = "none"
        /\ text = StandardReport) =>
        /\ \A name \in SectionNames : ~out[name].isNone
        /\ AfterDeletion["comparison"].isNone
        /\ \A name \in SectionNames \ {"comparison"} :
               AfterDeletion[name] = out[name]

\* C17: on the report with all six sections in standard order all six fields
\* are present; deleting only the marker of the comparison section gives a
\* record in which the comparison field is absent, the technique field (the
\* section before the deleted marker) is its former value followed by the
\* text that followed the deleted marker, and every other field has the value
\* it had before.
C17_ComparisonAbsentTechniqueGrows ==
    (op = "RadReportExtractor.extract_all" /\ raised = "none"
        /\ text = StandardReport) =>
        /\ \A name \in SectionNames : ~out[name].isNone
        /\ AfterDeletion["comparison"].isNone
        /\ AfterDeletion["technique"] =
               Field(out["technique"].str \o <<"\n", ":", " ", "c">>)
        /\ \A name \in SectionNames \ {"comparison", "technique"} :
               AfterDeletion[name] = out[name]

\* the facade extracted all six sections of the standard report, without the
\* section keywords
C17_Witness ==
    /\ op = "RadReportExtractor.extract_all"
    /\ raised = "none"
    /\ text = StandardReport
    /\ ~arg.include_key
    /\ out["title"] = Field(<<"T">>)
    /\ \A name \in Range(SectionOrder) :
           out[name] = Field(<<":", " ", ContentOf[name]>>)

\* the span of text a section of the facade is taken from, from the start of
\* its keyword to its end boundary; NoMatch if the section is absent
SectionSpan(self, name, s) ==
    LET config == self.section_configs[name]
        start == _find_start_position(s, config.start_keys,
                                      word_boundary_default).val
    IN  IF start = NoMatch
        THEN NoMatch
        ELSE <<start[1],
               _find_end_position_greedy(s, config.next_section_keys,
                                         start[1],
                                         word_boundary_default).val>>

\* C18: with the default markers, the sections the facade extracts are
\* pairwise non-overlapping spans of the text, and each section extends from
\* its keyword until the next section keyword in the text (or the end of the
\* text), also when the sections are not in the standard order.
C18_SectionsDoNotOverlap ==
    (op = "RadReportExtractor.extract_all" /\ raised = "none"
        /\ arg.keys_findings = DefaultKeys["findings"]) =>
        LET present == {name \in Range(SectionOrder) :
                           SectionSpan(ext, name, text) # NoMatch}
            span(name) == SectionSpan(ext, name, text)
            keywords == MatchPlaces(ext.section_configs["title"]
                                        .next_section_keys.list,
                                    text, word_boundary_default)
        IN  /\ \A n, m \in present :
                   n # m => (span(n)[2] <= span(m)[1] \/
                             span(m)[2] <= span(n)[1])
            /\ \A n \in present :
                   span(n)[2] =
                       Min({p \in keywords : p > span(n)[1]} \cup {Len(text)})

-----------------------------------------------------------------------------
(* Properties of the match strategy of extract *)

\* the offsets at or after position from at which a match of marker k begins
MarkerStartsFrom(k, s, from, word_boundary) ==
    {p \in MarkerStarts(k, s, word_boundary) : p >= from}

\* the end that a search among the markers keys resolves after position
\* from: under the greedy strategy the earliest match of any marker, under
\* the sequential strategy the earliest match of the first listed marker
\* that matches; len(s) if none matches
EndAmong(match_strategy, keys, s, from, word_boundary) ==
    LET matching == {i \in 1..Len(keys) :
                        MarkerStartsFrom(keys[i], s, from, word_boundary) # {}}
    IN  IF matching = {}
        THEN Len(s)
        ELSE IF match_strategy = "greedy"
        THEN Min(UNION {MarkerStartsFrom(keys[i], s, from, word_boundary) :
                        i \in matching})
        ELSE Min(MarkerStartsFrom(keys[Min(matching)], s, from,
                                  word_boundary))

\* C19: the section that extract returns ends, under the greedy strategy, at
\* the earliest match after the matched start marker of any of the start_keys
\* or any of the end_keys, and under the sequential strategy at the match of
\* the first of the start_keys and end_keys, in list order, that matches
\* there.
C19_SectionEndsAtStartOrEndMarker ==
    (op = "extract" /\ raised = "none" /\ ~ext.start_keys.isNone
        /\ MatchedStart(ext, text) # NoMatch) =>
        LET start == MatchedStart(ext, text)
            keys  == ext.start_keys.list \o
                     (IF ext.end_keys.isNone THEN <<>> ELSE ext.end_keys.list)
            end   == EndAmong(ext.match_strategy, keys, text, start[2],
                              word_boundary_default)
        IN  out = Section(text, ext.include_start_keys, start[1], start[2],
                          end)

-----------------------------------------------------------------------------
(* Properties of concurrent calls *)

\* what the call of a frame returns or raises when it runs alone
Alone(self, frame) ==
    IF frame.method = "extract"
    THEN LET r == extract(self, frame.text)
         IN  [raised |-> r.raised, val |-> r.val]
    ELSE extract_all(self, frame.text)

\* C20: a SectionExtractor is immutable after construction: while threads
\* call extract and extract_all on it, start_keys, end_keys,
\* include_start_keys, word_boundary and match_strategy stay as the
\* constructor set them and the instance holds nothing else; and under every
\* interleaving of the statements of concurrent calls, each call returns (or
\* raises) exactly what it returns when run alone on its text.
C20_ConcurrentCallsDoNotInterfere ==
    ext.constructed =>
        /\ ext = SectionExtractor(arg.start_keys, arg.end_keys,
                                  arg.include_start_keys, arg.word_boundary,
                                  arg.match_strategy).val
        /\ \A t \in Threads :
               calls[t].pc = "done" =>
                   calls[t].result = Alone(ext, calls[t])

\* two calls on different texts, each pre-empted by the other between two of
\* its statements, have returned different non-empty results
C20_Witness ==
    /\ ext.constructed
    /\ calls[1].pc = "done"
    /\ calls[2].pc = "done"
    /\ calls[1].preempted
    /\ calls[2].preempted
    /\ calls[1].text # calls[2].text
    /\ calls[1].result.raised = "none"
    /\ calls[2].result.raised = "none"
    /\ calls[1].result.val # <<>>
    /\ calls[2].result.val # <<>>
    /\ calls[1].result # calls[2].result

-----------------------------------------------------------------------------
(* Properties of the values the start searches return *)

\* C21: _find_start_position returns (0, 0) when keys is None; with a
\* non-empty list of markers, each a pattern on its own, it returns (-1, -1)
\* when no marker matches and otherwise the span [start, end) of the leftmost
\* match of any marker: start is the smallest offset at which a marker
\* matches, [start, end) is a match of a marker, and
\* 0 <= start <= end <= len(text).
C21_FirstStartSpan ==
    (op = "_find_start_position") =>
        /\ arg.keys.isNone => (raised = "none" /\ out = <<0, 0>>)
        /\ (~arg.keys.isNone /\ Len(arg.keys.list) > 0
                /\ WellFormed(arg.keys.list)) =>
               LET spans == AnyMarkerSpans(arg.keys.list, text,
                                           arg.word_boundary)
               IN  /\ raised = "none"
                   /\ spans = {} => out = NoMatch
                   /\ spans # {} =>
                          /\ out[1] = Min({m[1] : m \in spans})
                          /\ out \in spans
                          /\ 0 <= out[1]
                          /\ out[1] <= out[2]
                          /\ out[2] <= Len(text)

\* the start search over two markers returned the span of a match that begins
\* after the start of the text and ends before its end
C21_Witness ==
    /\ op = "_find_start_position"
    /\ raised = "none"
    /\ ~arg.keys.isNone
    /\ Len(arg.keys.list) = 2
    /\ out # NoMatch
    /\ 0 < out[1]
    /\ out[1] < out[2]
    /\ out[2] < Len(text)

\* what C22 says of _find_start_position_all apart from the order of the
\* spans: [(0, 0)] when keys is None; with a non-empty list of markers, each
\* a pattern on its own, [] when no marker matches and otherwise spans that
\* are each the match of a marker and do not overlap, every offset at which a
\* marker matches being the start of a span or inside one; and the first span
\* is the span that _find_start_position returns for the same arguments
AllStartsDisjoint(increasing(_, _)) ==
    (op = "_find_start_position_all") =>
        /\ arg.keys.isNone => (raised = "none" /\ out = <<<<0, 0>>>>)
        /\ (~arg.keys.isNone /\ Len(arg.keys.list) > 0
                /\ WellFormed(arg.keys.list)) =>
               LET spans == AnyMarkerSpans(arg.keys.list, text,
                                           arg.word_boundary)
               IN  /\ raised = "none"
                   /\ (out = <<>>) <=> (spans = {})
                   /\ \A i \in 1..Len(out) : out[i] \in spans
                   /\ \A i \in 1..(Len(out) - 1) :
                          /\ increasing(out[i], out[i + 1])
                          /\ out[i][2] <= out[i + 1][1]
                   /\ \A m \in spans :
                          \E i \in 1..Len(out) :
                              \/ out[i][1] = m[1]
                              \/ out[i][1] < m[1] /\ m[1] < out[i][2]
                   /\ out # <<>> =>
                          out[1] = _find_start_position(text, arg.keys,
                                                        arg.word_boundary).val

\* the span m begins before the span n
BeginsBefore(m, n) == m[1] < n[1]

\* the span m begins before the span n, or m is an empty match and n is a
\* match that begins at the same offset and is not empty
BeginsBeforeOrEmptyAt(m, n) ==
    \/ m[1] < n[1]
    \/ m[1] = m[2] /\ n[1] = m[1] /\ n[1] < n[2]

\* C22 as stated: the spans that _find_start_position_all returns are strictly
\* increasing from left to right and do not overlap.
C22_AllStartsStrictlyIncreasing == AllStartsDisjoint(BeginsBefore)

\* C22: _find_start_position_all returns [(0, 0)] when keys is None, [] when
\* nothing matches and otherwise all matches as spans from left to right that
\* do not overlap (each span ends at or before the start of the next one);
\* the starts of the spans increase strictly, except that the empty match of
\* a marker is followed by the match that begins at the same offset when
\* there is one that is not empty; the first span is the span that
\* _find_start_position returns for the same text, markers and word boundary.
C22_AllStartsOrderedDisjoint == AllStartsDisjoint(BeginsBeforeOrEmptyAt)

\* the search for all starts with the markers "" and "a" returned the empty
\* match at an offset and then the match of "a" at the same offset
C22_Witness ==
    /\ op = "_find_start_position_all"
    /\ raised = "none"
    /\ ~arg.keys.isNone
    /\ \E i \in 1..(Len(out) - 1) :
           /\ out[i][1] = out[i][2]
           /\ out[i + 1][1] = out[i][1]
           /\ out[i + 1][2] > out[i + 1][1]
    /\ \E i \in 1..(Len(out) - 1) : out[i][1] < out[i + 1][1]

-----------------------------------------------------------------------------
(* Relations between extractions *)

\* C23: the order of the start markers never affects the output: extract and
\* extract_all return the same result under every permutation of start_keys,
\* also with include_start_keys=False and with a marker that is a prefix of
\* another one.
C23_StartMarkerOrderIrrelevant ==
    (op \in {"extract", "extract_all"} /\ raised = "none"
        /\ ~ext.start_keys.isNone) =>
        \A q \in Permutations(ext.start_keys.list) :
            LET permuted == [ext EXCEPT !.start_keys = List(q)]
                r == IF op = "extract"
                     THEN extract(permuted, text)
                     ELSE extract_all(permuted, text)
            IN  r.raised = "none" /\ r.val = out

-----------------------------------------------------------------------------
(* Relations between the two end searches *)

\* what C24 says of the two end searches for arguments for which both
\* return: the greedy end is less than or equal to the sequential end, the
\* two are equal when the list is None or has exactly one marker, and each is
\* len(text) exactly when its condition holds
EndsCompared(greedy_at_end, sequential_at_end) ==
    (op \in {"_find_end_position_greedy", "_find_end_position_sequential"}) =>
        LET greedy     == _find_end_position_greedy(text, arg.keys,
                                                    arg.start_pos,
                                                    arg.word_boundary)
            sequential == _find_end_position_sequential(text, arg.keys,
                                                        arg.start_pos,
                                                        arg.word_boundary)
        IN  (greedy.raised = "none" /\ sequential.raised = "none") =>
                /\ out = IF op = "_find_end_position_greedy"
                         THEN greedy.val
                         ELSE sequential.val
                /\ greedy.val <= sequential.val
                /\ (arg.keys.isNone \/ Len(arg.keys.list) = 1) =>
                       greedy.val = sequential.val
                /\ (greedy.val = Len(text)) <=> greedy_at_end
                /\ (sequential.val = Len(text)) <=> sequential_at_end

\* no end marker matches in text[start_pos:]
Unmatched ==
    \/ arg.keys.isNone
    \/ AnyMarkerStarts(arg.keys.list, Remainder, arg.word_boundary) = {}

\* no match of an end marker begins before the end of text[start_pos:]
NoneBeforeEnd ==
    \/ arg.keys.isNone
    \/ \A p \in AnyMarkerStarts(arg.keys.list, Remainder, arg.word_boundary) :
           p = Len(Remainder)

\* no match of the first listed end marker that matches in text[start_pos:]
\* begins before the end of text[start_pos:]
NoneOfFirstBeforeEnd ==
    \/ arg.keys.isNone
    \/ LET matching == MatchingMarkers(arg.keys.list, Remainder,
                                       arg.word_boundary)
       IN  \/ matching = {}
           \/ \A p \in MarkerStarts(arg.keys.list[Min(matching)], Remainder,
                                    arg.word_boundary) :
                  p = Len(Remainder)

\* C24 as stated: the greedy end is less than or equal to the sequential
\* end, the two are equal when the list is None or has exactly one marker,
\* and each of them is len(text) exactly when no end marker matches in
\* text[start_pos:].
C24_EndIsLenExactlyWhenUnmatched == EndsCompared(Unmatched, Unmatched)

\* C24: for every text, end marker list, start_pos and word boundary for
\* which both end searches return, the greedy end is less than or equal to
\* the sequential end, the two are equal when the list is None or has exactly
\* one marker, and both are len(text) when no end marker matches in
\* text[start_pos:]; otherwise the greedy end is len(text) only when no match
\* of a marker begins before the end of the text, and the sequential end only
\* when no match of the first listed marker that matches does (an empty match
\* at the end of the text).
C24_GreedyEndNotAfterSequentialEnd ==
    /\ EndsCompared(NoneBeforeEnd, NoneOfFirstBeforeEnd)
    /\ (op \in {"_find_end_position_greedy", "_find_end_position_sequential"}
            /\ raised = "none" /\ Unmatched) =>
           out = Len(text)

\* the sequential search over two markers, started after the start of the
\* text, returned an end before len(text) that lies after the greedy end
C24_Witness ==
    /\ op = "_find_end_position_sequential"
    /\ raised = "none"
    /\ ~arg.keys.isNone
    /\ Len(arg.keys.list) = 2
    /\ arg.start_pos > 0
    /\ out < Len(text)
    /\ _find_end_position_greedy(text, arg.keys, arg.start_pos,
                                 arg.word_boundary).raised = "none"
    /\ _find_end_position_greedy(text, arg.keys, arg.start_pos,
                                 arg.word_boundary).val < out

-----------------------------------------------------------------------------
(* Properties of the slice *)

\* C25: whenever a start marker matches, the end that extract and extract_all
\* resolve for the match is never smaller than the end of the match, so the
\* slice taken with include_start_keys=False never has negative length, also
\* when an end marker matches at the start marker or overlaps it.
C25_EndNotBeforeEndOfStartMatch ==
    /\ (op = "extract" /\ raised = "none" /\ ~ext.start_keys.isNone
            /\ MatchedStart(ext, text) # NoMatch) =>
           LET start == MatchedStart(ext, text)
           IN  FindEnd(ext.match_strategy, text, ext.end_keys, start[1],
                       word_boundary_default).val >= start[2]
    /\ (op = "extract_all" /\ raised = "none" /\ ~ext.start_keys.isNone) =>
           LET start_positions ==
                   _find_start_position_all(text, ext.start_keys,
                                            ext.word_boundary).val
           IN  \A i \in 1..Len(start_positions) :
                   FindEnd(ext.match_strategy, text, ext.end_keys,
                           start_positions[i][1], ext.word_boundary).val >=
                       start_positions[i][2]

-----------------------------------------------------------------------------
(* Single and multi extraction *)

\* C26: single and multi extraction agree on the first occurrence: for every
\* extractor and text for which both return, if extract(text) is non-empty
\* then extract_all(text) is non-empty and its first element is extract(text),
\* and if extract_all(text) is empty then extract(text) is the empty string.
C26_ExtractIsFirstOfExtractAll ==
    (op = "extract" /\ raised = "none"
        /\ extract_all(ext, text).raised = "none") =>
        LET all == extract_all(ext, text).val
        IN  /\ out # <<>> => (all # <<>> /\ all[1] = out)
            /\ all = <<>> => out = <<>>

\* C27: the string that extract returns is a contiguous substring of the text
\* without leading or trailing whitespace, and the end that extract resolves
\* lies between the offset its end search starts from and len(text).
C27_ExtractIsStrippedSubstring ==
    (op = "extract" /\ raised = "none") =>
        /\ \E a \in 0..Len(text) :
               \E b \in a..Len(text) : out = Slice(text, a, b)
        /\ out # <<>> => (~IsSpace(out[1]) /\ ~IsSpace(out[Len(out)]))
        /\ MatchedStart(ext, text) # NoMatch =>
               LET from == MatchedStart(ext, text)[1]
                   end  == FindEnd(ext.match_strategy, text, ext.end_keys,
                                   from, word_boundary_default).val
               IN  from <= end /\ end <= Len(text)

\* extract returned a non-empty section that begins after the matched start
\* marker and ends before an end marker, with whitespace stripped on a side
C27_Witness ==
    /\ op = "extract"
    /\ raised = "none"
    /\ ~ext.start_keys.isNone
    /\ ~ext.end_keys.isNone
    /\ ~ext.include_start_keys
    /\ out # <<>>
    /\ Len(out) + 2 < Len(text)
    /\ \E i \in 1..Len(text) : IsSpace(text[i])

-----------------------------------------------------------------------------
(* Properties of the functional form *)

\* C28: extract_section rejects an unrecognized match_strategy with a
\* ValueError for every text, also when no start marker matches the text; an
\* invalid strategy never gives a normal result.
C28_ExtractSectionRejectsInvalidStrategy ==
    (op = "extract_section"
        /\ arg.match_strategy \notin match_strategy_options) =>
        raised = "ValueError"

-----------------------------------------------------------------------------
(* Properties of the duplicate-marker diagnostic *)

\* C29: the diagnostic agrees with the match performed: _find_start_position
\* emits a diagnostic for a marker only if the marker has 2 or more matches
\* under the word_boundary setting of the search, and the count it reports is
\* that number of matches, so that with word_boundary=True an occurrence
\* inside a longer word is not counted.
C29_DiagnosticCountsMatchesOfTheSearch ==
    (op = "_find_start_position" /\ raised = "none" /\ ~arg.keys.isNone) =>
        \A j \in 1..Len(log) :
            LET found == finditer(_pattern_keys(<<log[j].key>>,
                                                arg.word_boundary).val,
                                  text, 0)
            IN  Len(found) >= 2 /\ log[j].count = Len(found)

\* C30: _warn_dup_pattern emits a warning for every key of the list that
\* matches 2 or more times in the text, whatever the number of matches of the
\* keys listed before it.
C30_WarningForEveryRepeatedKey ==
    (op = "_warn_dup_pattern" /\ raised = "none") =>
        \A i \in 1..Len(arg.keys.list) :
            MatchCount(arg.keys.list[i], text) >= 2 =>
                \E j \in 1..Len(log) : log[j].key = arg.keys.list[i]

====
